---- MODULE Spec2Model ----
(***************************************************************************)
(* A model of the tof-export data pipeline: the AbilityItem order and the  *)
(* Weapon record (data_types.py), the edit operations and apply_mod        *)
(* (data_edit.py), the Exportable codec (data_types.py, data_edit.py) and  *)
(* the extractors and the linker (data_export.py).                         *)
(*                                                                         *)
(* Python objects live in a heap (id -> fields) and the category lists of  *)
(* a Weapon hold ids, so that "the same object" and "an equal object" stay *)
(* different things.  An optional value (x | None) is a sequence of length *)
(* at most one: <<>> is None, <<v>> is v.  A description text is a         *)
(* sequence of one-character strings.                                      *)
(***************************************************************************)
EXTENDS Integers, Sequences, FiniteSets, TLC

VARIABLES
    \* ---- apply_mod (data_edit.py) ----
    heap,            \* id -> AbilityItem fields (the AbilityItem objects)
    weapons,         \* the list of Weapon objects handed to apply_mod
    weapon_ability_d,\* char -> ordered name index built before the edits
    pc,              \* "table" | "iter" | "done" | "error" | "idle"
    err,             \* the error apply_mod ended with ("" while none)
    wpn,             \* index in weapons of the character being processed, 0 before
    previous_modi,   \* <<>> or <<modi>>: apply_mod's previous_modi
    modi,            \* the operation(s) of the selector being applied
    it,              \* the running for-loop of _apply_mod_multi
    used_chars,      \* keys of mods already iterated
    used_sel,        \* selectors of the current character already iterated
    nsel,            \* number of selectors processed so far
    sel,             \* the selector being applied
    resolved,        \* the four category lists when the selector was resolved
    applied,         \* the calls of _apply_mod_single made for the selector
    table_log        \* the entries of mods[_wpn_name] read so far, with what each resolved to

editVars == <<heap, weapons, weapon_ability_d, pc, err, wpn, previous_modi,
              modi, it, used_chars, used_sel, nsel, sel, resolved, applied,
              table_log>>

VARIABLES
    \* ---- Remove / Strip called on a text (data_edit.py) ----
    arg_text,        \* the argument text
    arg_pattern,     \* Remove.pattern
    ret_text,        \* what the call returned
    text_pc,         \* "input" | "removed" | "stripped" | "error" | "idle"
    \* ---- get_advancement_entries (data_export.py) ----
    DTWUS,           \* the keys of DTWUS["Rows"]
    entries,         \* the list being returned
    done,
    skip,
    adv_pc,          \* "loop" | "returned" | "error" | "idle"
    \* ---- Exportable.serialize / deserialize (data_types.py, data_edit.py) ----
    codec_in,        \* the record x
    codec_ser,       \* x.serialize()
    codec_out,       \* type(x).deserialize(x.serialize())
    codec_pc,        \* "input" | "serialized" | "deserialized" | "error" | "idle"
    \* ---- get_weapons (data_export.py) ----
    name_intro_entries, \* get_name_intro_entries()
    char_ref_entries,   \* get_char_ref_entries()
    adv_d,              \* lower-cased reference name -> Advancements
    ab_d,               \* lower-cased reference name -> Abilities
    link_i,             \* number of character entries handled
    linked,             \* the list "weapons" being returned
    link_log,           \* per character handled: how its name/intro entry was found
    link_pc,            \* "loop" | "returned" | "error" | "idle"
    \* ---- get_ability_entries (data_export.py) ----
    ab_entries,      \* ref_name -> Abilities, in insertion order
    ab_skip,         \* the set "skip"
    ab_row,          \* the row of DTGAT["Rows"] being read
    ab_left,         \* branches of that row still to read
    ab_nitems,       \* branches read so far
    ab_last,         \* what happened to the branch read last
    ab_log,          \* the branches that got past the control checks, in order
    ab_pc,           \* "rows" | "branches" | "returned" | "error" | "idle"
    \* ---- AbilityItem.__lt__ (data_types.py) ----
    lt_self,         \* self.control
    lt_other,        \* other.control
    lt_ret,          \* what self < other returned
    lt_pc,           \* "input" | "returned" | "idle"
    \* ---- export_assets (data_export.py) ----
    exp_args,        \* the arguments weapons, icons, compress, output_dir
    exp_weapons,     \* what get_weapons() returned
    exp_i,           \* number of weapons exported so far
    exp_files,       \* the files in output_dir
    exp_trace,       \* the calls made so far, in order
    exp_pc,          \* "start" | "weapons" | "icons" | "compress" | "done" | "idle"
    \* ---- create_index (search.py, image_search.py) ----
    ix_module,       \* "search" | "image_search"
    ix_total,        \* the files under the base path, numbered 1..ix_total
    ix_next,         \* the next file file_iter yields
    ix_done,         \* the flag "done" (StopIteration was raised)
    ix_futures,      \* the chunk's futures not yet handled: file -> task state
    ix_batch,        \* batch / batch_paths
    ix_bytes,        \* batch_size_bytes
    ix_commits,      \* the batches inserted and committed, in order
    ix_count,        \* count
    ix_handled,      \* the results as_completed has handed over, in order
    ix_pc            \* "count" | "submit" | "drain" | "flush" | "done" | "idle"

textVars == <<arg_text, arg_pattern, ret_text, text_pc>>
advVars == <<DTWUS, entries, done, skip, adv_pc>>
codecVars == <<codec_in, codec_ser, codec_out, codec_pc>>
linkVars == <<name_intro_entries, char_ref_entries, adv_d, ab_d, link_i, linked,
              link_log, link_pc>>
abilVars == <<ab_entries, ab_skip, ab_row, ab_left, ab_nitems, ab_last, ab_log, ab_pc>>
orderVars == <<lt_self, lt_other, lt_ret, lt_pc>>
exportVars == <<exp_args, exp_weapons, exp_i, exp_files, exp_trace, exp_pc>>
indexVars == <<ix_module, ix_total, ix_next, ix_done, ix_futures, ix_batch, ix_bytes,
               ix_commits, ix_count, ix_handled, ix_pc>>

vars == <<editVars, textVars, advVars, codecVars, linkVars, abilVars, orderVars,
          exportVars, indexVars>>

\* the parts of the pipeline a run of one function does not touch
EditIdle ==
    /\ heap = <<>> /\ weapons = <<>> /\ weapon_ability_d = <<>> /\ pc = "idle"
    /\ err = "" /\ wpn = 0 /\ previous_modi = <<>> /\ modi = <<>> /\ it = <<>>
    /\ used_chars = {} /\ used_sel = {} /\ nsel = 0 /\ sel = ""
    /\ resolved = <<>> /\ applied = <<>> /\ table_log = <<>>
TextIdle == arg_text = <<>> /\ arg_pattern = <<>> /\ ret_text = <<>> /\ text_pc = "idle"
AdvIdle == DTWUS = {} /\ entries = <<>> /\ done = {} /\ skip = {} /\ adv_pc = "idle"
CodecIdle == codec_in = <<>> /\ codec_ser = <<>> /\ codec_out = <<>> /\ codec_pc = "idle"
LinkIdle ==
    /\ name_intro_entries = <<>> /\ char_ref_entries = <<>> /\ adv_d = <<>>
    /\ ab_d = <<>> /\ link_i = 0 /\ linked = <<>> /\ link_log = <<>>
    /\ link_pc = "idle"
AbilIdle ==
    /\ ab_entries = <<>> /\ ab_skip = {} /\ ab_row = <<>> /\ ab_left = <<>>
    /\ ab_nitems = 0 /\ ab_last = <<>> /\ ab_log = <<>> /\ ab_pc = "idle"
OrderIdle == lt_self = <<>> /\ lt_other = <<>> /\ lt_ret = FALSE /\ lt_pc = "idle"
ExportIdle ==
    /\ exp_args = <<>> /\ exp_weapons = <<>> /\ exp_i = 0 /\ exp_files = {}
    /\ exp_trace = <<>> /\ exp_pc = "idle"
IndexIdle ==
    /\ ix_module = "" /\ ix_total = 0 /\ ix_next = 0 /\ ix_done = FALSE
    /\ ix_futures = <<>> /\ ix_batch = <<>> /\ ix_bytes = 0 /\ ix_commits = <<>>
    /\ ix_count = 0 /\ ix_handled = <<>> /\ ix_pc = "idle"

notEdit == <<textVars, advVars, codecVars, linkVars, abilVars,
           orderVars, exportVars, indexVars>>
notText == <<editVars, advVars, codecVars, linkVars, abilVars,
           orderVars, exportVars, indexVars>>
notAdv == <<editVars, textVars, codecVars, linkVars, abilVars,
           orderVars, exportVars, indexVars>>
notCodec == <<editVars, textVars, advVars, linkVars, abilVars,
           orderVars, exportVars, indexVars>>
notLink == <<editVars, textVars, advVars, codecVars, abilVars,
           orderVars, exportVars, indexVars>>
notOrder == <<editVars, textVars, advVars, codecVars, linkVars, abilVars, exportVars,
             indexVars>>
notExport == <<editVars, textVars, advVars, codecVars, linkVars, abilVars, orderVars,
              indexVars>>
notIndex == <<editVars, textVars, advVars, codecVars, linkVars, abilVars, orderVars,
             exportVars>>
notAbil == <<editVars, textVars, advVars, codecVars, linkVars,
           orderVars, exportVars, indexVars>>

None == <<>>
Some(v) == <<v>>

(***************************************************************************)
(* Operation (data_types.py): the control tokens and their sort value.     *)
(***************************************************************************)
ATTACK == 0
JUMP == 1
DODGE == 2
SNEAK == 3
DIRECTIONAL_KEY == 4
HOLD_ATTACK == 5
AND == 6
NEXT == 7
HOLD_DODGE == 8

Operation == ATTACK..HOLD_DODGE

\* every token sorted by its own value
sort_value_own(op) == op

\* Operation.sort_value
sort_value(op) == IF op = DIRECTIONAL_KEY THEN 1 ELSE op

Min(a, b) == IF a < b THEN a ELSE b

\* the comparison ending with len(self.control) <= len(other.control)
RECURSIVE zip_le(_, _, _)
zip_le(c, d, i) ==
    IF i > Min(Len(c), Len(d)) THEN Len(c) <= Len(d)
    ELSE IF sort_value(c[i]) # sort_value(d[i])
         THEN sort_value(c[i]) < sort_value(d[i])
         ELSE zip_le(c, d, i + 1)

\* AbilityItem.__lt__ on the two control lists
RECURSIVE zip_lt(_, _, _)
zip_lt(c, d, i) ==
    IF i > Min(Len(c), Len(d)) THEN Len(c) < Len(d)
    ELSE IF sort_value(c[i]) # sort_value(d[i])
         THEN sort_value(c[i]) < sort_value(d[i])
         ELSE zip_lt(c, d, i + 1)

AbilityItem_lt(c, d) ==
    IF c = <<>> THEN FALSE
    ELSE IF d = <<>> THEN TRUE
    ELSE zip_lt(c, d, 1)

\* sorted(): a stable sort that only asks "<".  cs is the list of the items'
\* controls; the result is the order of their indices
RECURSIVE insert_sorted(_, _, _)
insert_sorted(s, x, cs) ==
    IF s = <<>> THEN <<x>>
    ELSE IF AbilityItem_lt(cs[x], cs[s[Len(s)]])
         THEN Append(insert_sorted(SubSeq(s, 1, Len(s) - 1), x, cs), s[Len(s)])
         ELSE Append(s, x)

RECURSIVE sorted_idx(_, _)
sorted_idx(n, cs) ==
    IF n = 0 THEN <<>> ELSE insert_sorted(sorted_idx(n - 1, cs), n, cs)

\* the items left in the order given
sorted_asis(items, cs) == items

\* sorted(items), where cs[k] is the control of items[k]
sorted(items, cs) ==
    LET perm == sorted_idx(Len(items), cs)
    IN  [k \in 1..Len(items) |-> items[perm[k]]]

\* no item is strictly less than an item that precedes it
IsSorted(cs) ==
    \A i, j \in 1..Len(cs) : i < j => ~AbilityItem_lt(cs[j], cs[i])

(***************************************************************************)
(* Texts and patterns.  A pattern is a literal, optionally followed by     *)
(* ".*" (with re.DOTALL: everything up to the end of the text).            *)
(***************************************************************************)
Chars == {"x", "a", " "}
Whitespace == {" "}

Lit(s) == [lit |-> s, dotstar |-> FALSE]
LitDotStar(s) == [lit |-> s, dotstar |-> TRUE]

\* does the pattern match at position i (1..Len+1) of the text?
match_at(text, p, i) ==
    /\ i + Len(p.lit) - 1 <= Len(text)
    /\ SubSeq(text, i, i + Len(p.lit) - 1) = p.lit

match_len(text, p, i) == IF p.dotstar THEN Len(text) - i + 1 ELSE Len(p.lit)

\* re.search: the start of the leftmost match, 0 when there is none
re_search(p, text) ==
    IF \E i \in 1..(Len(text) + 1) : match_at(text, p, i)
    THEN CHOOSE i \in 1..(Len(text) + 1) :
             /\ match_at(text, p, i)
             /\ \A j \in 1..(i - 1) : ~match_at(text, p, j)
    ELSE 0

\* m.group(0)
group0(p, text) ==
    LET i == re_search(p, text)
    IN  SubSeq(text, i, i + match_len(text, p, i) - 1)

\* re.sub(pattern, "", text): every non-overlapping match, left to right
RECURSIVE re_sub_from(_, _, _)
re_sub_from(p, text, i) ==
    IF i > Len(text) THEN <<>>
    ELSE IF match_at(text, p, i) /\ match_len(text, p, i) > 0
         THEN re_sub_from(p, text, i + match_len(text, p, i))
         ELSE <<text[i]>> \o re_sub_from(p, text, i + 1)

re_sub(p, text) == re_sub_from(p, text, 1)

\* str.strip()
RECURSIVE lstrip(_)
lstrip(text) ==
    IF text # <<>> /\ text[1] \in Whitespace THEN lstrip(Tail(text)) ELSE text

RECURSIVE rstrip(_)
rstrip(text) ==
    IF text # <<>> /\ text[Len(text)] \in Whitespace
    THEN rstrip(SubSeq(text, 1, Len(text) - 1))
    ELSE text

strip(text) == lstrip(rstrip(text))

(***************************************************************************)
(* The edit operations (data_edit.py).  A text operation is a record       *)
(* [kind, pattern]; an operation of the edit table is a record             *)
(* [kind, pattern, to, regex, post_format, name, desc, icon, control].     *)
(* post_format and a table entry ("modi") are [list, ops]: list is FALSE   *)
(* for a single operation (ops has length one) and TRUE for a Python list. *)
(* control is a list for Move and an optional list for Modify.             *)
(***************************************************************************)
AbilityCategory == {"normals", "dodges", "skills", "discharges", "passives"}

Single(op) == [list |-> FALSE, ops |-> <<op>>]
Many(ops) == [list |-> TRUE, ops |-> ops]

StripT == [kind |-> "STRIP", pattern |-> Lit(<<>>)]
RemoveT(p) == [kind |-> "REMOVE", pattern |-> p]

BlankOp(k) == [kind |-> k, pattern |-> Lit(<<>>), to |-> "passives", regex |-> None,
               post_format |-> Single(StripT), name |-> None, desc |-> None,
               icon |-> None, control |-> <<>>]
Strip == BlankOp("STRIP")
Remove(p) == [BlankOp("REMOVE") EXCEPT !.pattern = p]
Previous == BlankOp("PREVIOUS")
Move(to, regex, post_format, name) ==
    [BlankOp("MOVE") EXCEPT !.to = to, !.regex = regex,
                            !.post_format = post_format, !.name = name]
Modify(name, desc, control) ==
    [BlankOp("MODIFY") EXCEPT !.name = name, !.desc = desc, !.control = control]

TextKinds == {"STRIP", "REMOVE"}
AbilityKinds == {"MOVE", "MODIFY"}

\* Remove.__call__ as it would be with re.sub(..., count=1)
Remove_call_first(pattern, text) ==
    LET i == re_search(pattern, text)
        new == IF i = 0 THEN text
               ELSE SubSeq(text, 1, i - 1)
                    \o SubSeq(text, i + match_len(text, pattern, i), Len(text))
    IN  IF text = new THEN [ok |-> FALSE, text |-> text]
        ELSE [ok |-> TRUE, text |-> new]

\* Remove.__call__: the result [ok, text]; ok = FALSE is the ValueError
Remove_call(pattern, text) ==
    LET new_text == re_sub(pattern, text)
    IN  IF text = new_text THEN [ok |-> FALSE, text |-> text]
        ELSE [ok |-> TRUE, text |-> new_text]

\* Strip.__call__
Strip_call(text) == [ok |-> TRUE, text |-> strip(text)]

TextModi_call(op, text) ==
    IF op.kind = "REMOVE" THEN Remove_call(op.pattern, text) ELSE Strip_call(text)

\* for f in pformats: captured_desc = f(captured_desc)
RECURSIVE pformats_call(_, _, _)
pformats_call(ops, i, r) ==
    IF i > Len(ops) \/ ~r.ok THEN r
    ELSE pformats_call(ops, i + 1, TextModi_call(ops[i], r.text))

\* the first index of s holding an object equal (==) to object id, 0 if none
index_of(s, id, h) ==
    IF \E j \in 1..Len(s) : h[s[j]] = h[id]
    THEN CHOOSE j \in 1..Len(s) :
             /\ h[s[j]] = h[id]
             /\ \A k \in 1..(j - 1) : h[s[k]] # h[id]
    ELSE 0

remove_at(s, j) == SubSeq(s, 1, j - 1) \o SubSeq(s, j + 1, Len(s))

\* x or y, for an optional x
Or(x, y) == IF x = None \/ x = Some("") THEN y ELSE x[1]

Fail(st, e) == [st EXCEPT !.err = e]

NewId(h) == Cardinality(DOMAIN h) + 1

\* Move.__call__ on the state st = [heap, w, err]
Move_call(op, st, id, from_category) ==
    IF op.regex = None
    THEN LET ab_list == st.w[from_category]
             j == index_of(ab_list, id, st.heap)
         IN  IF j = 0 THEN Fail(st, "ValueError: list.remove(x): x not in list")
             ELSE LET w1 == [st.w EXCEPT ![from_category] = remove_at(ab_list, j)]
                  IN  [st EXCEPT !.w = [w1 EXCEPT ![op.to] = Append(@, id)]]
    ELSE LET regex == op.regex[1]
             ability == st.heap[id]
         IN  IF re_search(regex, ability.desc) = 0
             THEN Fail(st, "ValueError: Regex did not match anything!")
             ELSE LET r == pformats_call(op.post_format.ops, 1,
                                         [ok |-> TRUE, text |-> group0(regex, ability.desc)])
                      new_ab == [name |-> Or(op.name, ability.name),
                                 desc |-> r.text,
                                 icon |-> Or(op.icon, ability.icon),
                                 control |-> <<>>]
                      new_id == NewId(st.heap)
                      h1 == [k \in (DOMAIN st.heap) \cup {new_id} |->
                                IF k = new_id THEN new_ab ELSE st.heap[k]]
                  IN  IF ~r.ok THEN Fail(st, "ValueError: Failed to remove")
                      ELSE [st EXCEPT
                              !.w = [@ EXCEPT ![op.to] = Append(@, new_id)],
                              !.heap = [h1 EXCEPT ![id].desc = re_sub(regex, ability.desc)]]

\* the ability rebuilt from the operation, fields left out taking their defaults
Modify_call_rebuild(op, st, id) ==
    LET a == [name |-> IF op.name # None THEN op.name[1] ELSE "",
              desc |-> IF op.desc # None THEN op.desc[1] ELSE <<>>,
              icon |-> IF op.icon # None THEN op.icon[1] ELSE "",
              control |-> IF op.control # None THEN op.control[1] ELSE <<>>]
    IN  [st EXCEPT !.heap = [@ EXCEPT ![id] = a]]

\* Modify.__call__: each field that is not None overwrites the ability's
Modify_call(op, st, id) ==
    LET a0 == st.heap[id]
        a1 == IF op.name # None THEN [a0 EXCEPT !.name = op.name[1]] ELSE a0
        a2 == IF op.desc # None THEN [a1 EXCEPT !.desc = op.desc[1]] ELSE a1
        a3 == IF op.icon # None THEN [a2 EXCEPT !.icon = op.icon[1]] ELSE a2
        a4 == IF op.control # None THEN [a3 EXCEPT !.control = op.control[1]] ELSE a3
    IN  [st EXCEPT !.heap = [@ EXCEPT ![id] = a4]]

\* one round of the loop of _apply_mod_single
apply_one(op, st, id, ability_category) ==
    IF op.kind \in TextKinds
    THEN LET r == TextModi_call(op, st.heap[id].desc)
         IN  IF r.ok THEN [st EXCEPT !.heap = [@ EXCEPT ![id].desc = r.text]]
             ELSE Fail(st, "ValueError: Failed to remove")
    ELSE IF op.kind = "MOVE" THEN Move_call(op, st, id, ability_category)
    ELSE IF op.kind = "MODIFY" THEN Modify_call(op, st, id)
    ELSE Fail(st, "ValueError: Invalid item")

\* the same loop going on after a failed operation, the first error kept
RECURSIVE apply_mod_single_all(_, _, _, _, _)
apply_mod_single_all(ops, i, st, id, ability_category) ==
    IF i > Len(ops) THEN st
    ELSE LET r == apply_one(ops[i], [st EXCEPT !.err = ""], id, ability_category)
         IN  apply_mod_single_all(ops, i + 1,
                                  [r EXCEPT !.err = IF st.err # "" THEN st.err ELSE r.err],
                                  id, ability_category)

\* _apply_mod_single: the operations of modi in order, stopping at the first error
RECURSIVE apply_mod_single_from(_, _, _, _, _)
apply_mod_single_from(ops, i, st, id, ability_category) ==
    IF i > Len(ops) \/ st.err # "" THEN st
    ELSE apply_mod_single_from(ops, i + 1,
                               apply_one(ops[i], st, id, ability_category),
                               id, ability_category)

apply_mod_single(m, st, id, ability_category) ==
    apply_mod_single_from(m.ops, 1, st, id, ability_category)

(***************************************************************************)
(* Weapon (data_types.py) as apply_mod sees it: the character and the five *)
(* category lists, each a list of object ids.                              *)
(***************************************************************************)
controls_of(ids, h) == [k \in 1..Len(ids) |-> h[ids[k]].control]

\* Weapon.__post_init__
Weapon_post_init(w, h) ==
    [w EXCEPT !.normals = sorted(w.normals, controls_of(w.normals, h)),
              !.dodges = sorted(w.dodges, controls_of(w.dodges, h))]

\* Weapon(char=..., normals=..., ...)
Weapon(char, normals, dodges, skills, discharges, h) ==
    Weapon_post_init([char |-> char, normals |-> normals, dodges |-> dodges,
                      skills |-> skills, discharges |-> discharges,
                      passives |-> <<>>], h)

(***************************************************************************)
(* apply_mod (data_edit.py).  The edit table is read as apply_mod iterates *)
(* it: NextChar is one round of "for _wpn_name in mods", Select one round  *)
(* of "for _ab_name in mods[_wpn_name]" up to the call of _apply_mod_multi *)
(* or _apply_mod_single, Step one call of _apply_mod_single.               *)
(***************************************************************************)
MaxSelectors == 2
MaxHeap == 6

\* d[name] = val on an ordered dict kept as a list of [name, id, cat]
dict_set(d, e) ==
    IF \E k \in 1..Len(d) : d[k].name = e.name
    THEN [k \in 1..Len(d) |-> IF d[k].name = e.name THEN e ELSE d[k]]
    ELSE Append(d, e)

RECURSIVE index_category(_, _, _, _, _)
index_category(d, ids, i, cat, h) ==
    IF i > Len(ids) THEN d
    ELSE index_category(dict_set(d, [name |-> h[ids[i]].name, id |-> ids[i], cat |-> cat]),
                        ids, i + 1, cat, h)

\* weapon_ability_d[wpn.char]
ability_index(w, h) ==
    LET d1 == index_category(<<>>, w.normals, 1, "normals", h)
        d2 == index_category(d1, w.dodges, 1, "dodges", h)
        d3 == index_category(d2, w.skills, 1, "skills", h)
    IN  index_category(d3, w.discharges, 1, "discharges", h)

dict_get(d, name) ==
    IF \E k \in 1..Len(d) : d[k].name = name
    THEN Some(d[CHOOSE k \in 1..Len(d) : d[k].name = name])
    ELSE None

Live(src, cat) == [live |-> TRUE, src |-> src, snap |-> <<>>, cat |-> cat, i |-> 1]
Snapshot(pairs) == [live |-> FALSE, src |-> "", snap |-> pairs, cat |-> "", i |-> 1]
NoLoop == Snapshot(<<>>)

\* the list argument of _apply_mod_multi for a category wildcard
WildcardList(s) ==
    CASE s = "NORMALS" -> "normals"
      [] s = "DODGES" -> "dodges"
      [] s = "SKILLS" -> "dodges"
      [] s = "DISCHARGES" -> "dodges"

\* the category argument of _apply_mod_multi for a category wildcard
WildcardCategory(s) ==
    CASE s = "NORMALS" -> "normals"
      [] s = "DODGES" -> "dodges"
      [] s = "SKILLS" -> "skills"
      [] s = "DISCHARGES" -> "discharges"

Wildcards == {"NORMALS", "DODGES", "SKILLS", "DISCHARGES"}

\* what the loop iterates: the live list object, or the tuple zip() made
loop_items(l, w) ==
    IF l.live THEN [k \in 1..Len(w[l.src]) |-> [id |-> w[l.src][k], cat |-> l.cat]]
    ELSE l.snap

pairs_of(d) == [k \in 1..Len(d) |-> [id |-> d[k].id, cat |-> d[k].cat]]

Categories4(w) == [normals |-> w.normals, dodges |-> w.dodges,
                   skills |-> w.skills, discharges |-> w.discharges]

\* ------------------------------------------------------------- inputs
Objects ==
    <<[name |-> "p", desc |-> <<"x", "a", "x">>, icon |-> "i1", control |-> <<JUMP>>],
      [name |-> "q", desc |-> <<" ", "a">>, icon |-> "i2", control |-> <<ATTACK>>],
      [name |-> "p", desc |-> <<"x", "a", "x">>, icon |-> "i1", control |-> <<JUMP>>],
      [name |-> "q", desc |-> <<"x">>, icon |-> "i4", control |-> <<>>]>>

ids_in(cat, assign) ==
    LET F[i \in 0..3] ==
            IF i = 0 THEN <<>>
            ELSE IF assign[i] = cat THEN Append(F[i - 1], i) ELSE F[i - 1]
    IN  F[3]

Assignments ==
    { <<c1, c2, c3>> : c1 \in {"normals", "dodges"},
                       c2 \in {"normals", "dodges", "skills"},
                       c3 \in {"normals", "skills", "discharges"} }

TableChars == {"A", "B", "Z"}
Selectors == Wildcards \cup {"*", "p", "q", "zz"}
PatX == Lit(<<"x">>)
PatA == LitDotStar(<<"a">>)
Modis ==
    { Single(Strip),
      Single(Remove(PatX)),
      Single(Move("passives", None, Single(StripT), None)),
      Single(Move("normals", None, Single(StripT), None)),
      Single(Move("passives", Some(PatX), Single(StripT), None)),
      Single(Move("normals", Some(PatA), Many(<<StripT>>), Some("r"))),
      Single(Modify(None, None, Some(<<ATTACK>>))),
      Single(Modify(Some("r"), Some(<<"a">>), None)),
      Single(Previous),
      Many(<<Strip, Remove(PatA)>>) }

char_index(ws, c) ==
    IF \E k \in 1..Len(ws) : ws[k].char = c
    THEN CHOOSE k \in 1..Len(ws) : ws[k].char = c
    ELSE 0

EditInit ==
    \E assign \in Assignments :
        /\ heap = Objects
        /\ weapons = << Weapon("A", ids_in("normals", assign), ids_in("dodges", assign),
                               ids_in("skills", assign), ids_in("discharges", assign),
                               Objects),
                        Weapon("B", <<>>, <<>>, <<4>>, <<>>, Objects) >>
        /\ weapon_ability_d = [k \in 1..2 |-> ability_index(weapons[k], heap)]
        /\ pc = "table"
        /\ err = ""
        /\ wpn = 0
        /\ previous_modi = None
        /\ modi = Single(Strip)
        /\ it = NoLoop
        /\ used_chars = {}
        /\ used_sel = {}
        /\ nsel = 0
        /\ sel = ""
        /\ resolved = Categories4(weapons[1])
        /\ applied = <<>>
        /\ table_log = <<>>

Raise(e) ==
    /\ pc' = "error"
    /\ err' = e

\* previous_modi kept at the first operation(s) of the character
previous_modi_first(prev, m) == IF prev = None THEN Some(m) ELSE prev

\* previous_modi = modi, at the end of a round of "for _ab_name in ..."
previous_modi_after(prev, m) == Some(m)

\* previous_modi carried over from the character before
previous_modi_carried(prev) == prev

\* previous_modi = None, at the start of a round of "for _wpn_name in mods"
previous_modi_reset(prev) == None

\* for _wpn_name in mods: previous_modi = None; weapon = weapon_name_d[_wpn_name]
NextChar(c) ==
    /\ pc = "table"
    /\ c \notin used_chars
    /\ used_chars' = used_chars \cup {c}
    /\ used_sel' = {}
    /\ previous_modi' = previous_modi_reset(previous_modi)
    /\ table_log' = <<>>
    /\ IF char_index(weapons, c) = 0
       THEN Raise("KeyError: weapon") /\ UNCHANGED wpn
       ELSE wpn' = char_index(weapons, c) /\ UNCHANGED <<pc, err>>
    /\ UNCHANGED <<heap, weapons, weapon_ability_d, modi, it, nsel, sel,
                   resolved, applied>>
    /\ UNCHANGED notEdit

\* the loop the selector s starts, as <<ok, loop>>
selector_loop(s, w, d) ==
    IF s \in Wildcards THEN <<"", Live(WildcardList(s), WildcardCategory(s))>>
    ELSE IF s = "*"
         THEN IF d = <<>> THEN <<"ValueError: not enough values to unpack", NoLoop>>
              ELSE <<"", Snapshot(pairs_of(d))>>
    ELSE IF dict_get(d, s) = None THEN <<"KeyError: ability", NoLoop>>
    ELSE <<"", Snapshot(<<[id |-> dict_get(d, s)[1].id, cat |-> dict_get(d, s)[1].cat]>>)>>

\* an index rebuilt from the weapon as it is now
name_index_rebuilt(d, w, h) == ability_index(w, h)

\* weapon_ability_d[weapon.char], as built before the loop over the table
name_index(d, w, h) == d

\* for _ab_name in mods[_wpn_name]: resolve PREVIOUS, then match _ab_name
Select(s, m) ==
    /\ pc = "table"
    /\ wpn # 0
    /\ s \notin used_sel
    /\ used_sel' = used_sel \cup {s}
    /\ nsel' = nsel + 1
    /\ sel' = s
    /\ resolved' = Categories4(weapons[wpn])
    /\ applied' = <<>>
    /\ IF m = Single(Previous) /\ previous_modi = None
       THEN /\ Raise("ValueError: Cannot use PREVIOUS")
            /\ table_log' = Append(table_log, [sel |-> s, entry |-> m, modi |-> m])
            /\ UNCHANGED <<modi, it, previous_modi>>
       ELSE LET m0 == IF m = Single(Previous) THEN previous_modi[1] ELSE m
                r == selector_loop(s, weapons[wpn],
                                   name_index(weapon_ability_d[wpn], weapons[wpn], heap))
            IN  /\ modi' = m0
                /\ table_log' = Append(table_log, [sel |-> s, entry |-> m, modi |-> m0])
                /\ IF r[1] # ""
                   THEN Raise(r[1]) /\ UNCHANGED <<it, previous_modi>>
                   ELSE /\ it' = r[2]
                        /\ err' = err
                        /\ IF loop_items(r[2], weapons[wpn]) = <<>>
                           THEN /\ pc' = "table"
                                /\ previous_modi' = previous_modi_after(previous_modi, m0)
                           ELSE pc' = "iter" /\ UNCHANGED previous_modi
    /\ UNCHANGED <<heap, weapons, weapon_ability_d, wpn, used_chars>>
    /\ UNCHANGED notEdit

\* one round of the for loop of _apply_mod_multi (or the single call for a named
\* selector): _apply_mod_single(modi, weapon, ability, category)
Step ==
    /\ pc = "iter"
    /\ LET target == loop_items(it, weapons[wpn])[it.i]
           st == apply_mod_single(modi, [heap |-> heap, w |-> weapons[wpn], err |-> ""],
                                  target.id, target.cat)
       IN  /\ Cardinality(DOMAIN st.heap) <= MaxHeap
           /\ heap' = st.heap
           /\ weapons' = [weapons EXCEPT ![wpn] = st.w]
           /\ applied' = Append(applied, target)
           /\ it' = [it EXCEPT !.i = @ + 1]
           /\ IF st.err # ""
              THEN Raise(st.err) /\ UNCHANGED previous_modi
              ELSE /\ err' = err
                   /\ IF it.i + 1 > Len(loop_items(it, st.w))
                      THEN /\ pc' = "table"
                           /\ previous_modi' = previous_modi_after(previous_modi, modi)
                      ELSE pc' = "iter" /\ UNCHANGED previous_modi
    /\ UNCHANGED <<weapon_ability_d, wpn, modi, used_chars, used_sel, nsel, sel, resolved,
                   table_log>>
    /\ UNCHANGED notEdit

\* the table is exhausted: print("`apply_mod` Done!")
Finish ==
    /\ pc = "table"
    /\ pc' = "done"
    /\ UNCHANGED <<heap, weapons, weapon_ability_d, err, wpn, previous_modi, modi, it,
                   used_chars, used_sel, nsel, sel, resolved, applied, table_log>>
    /\ UNCHANGED notEdit

Init == EditInit /\ TextIdle /\ AdvIdle /\ CodecIdle /\ LinkIdle /\ AbilIdle
            /\ OrderIdle /\ ExportIdle /\ IndexIdle

Next ==
    \/ \E c \in TableChars : NextChar(c)
    \/ \E s \in Selectors, m \in Modis : nsel < MaxSelectors /\ Select(s, m)
    \/ Step
    \/ Finish

Spec == Init /\ [][Next]_vars

(***************************************************************************)
(* apply_mod on longer tables: SpecTable runs the same actions on one      *)
(* weapon layout with fewer selectors and operations, so that a character  *)
(* can have MaxEntries selectors, runs of PREVIOUS included.               *)
(***************************************************************************)
MaxEntries == 3

TableSelectors == {"p", "q", "NORMALS", "zz"}

TableModis ==
    { Single(Strip),
      Single(Previous),
      Single(Modify(Some("r"), Some(<<"a">>), None)),
      Single(Modify(None, None, Some(<<ATTACK>>))),
      Single([Modify(None, None, None) EXCEPT !.icon = Some("i9")]),
      Many(<<Remove(PatX), Strip>>),
      Many(<<Strip, Previous, Remove(PatA)>>) }

InitTable ==
    /\ EditInit
    /\ weapons[1].normals = <<2, 1>>
    /\ weapons[1].skills = <<3>>
    /\ TextIdle /\ AdvIdle /\ CodecIdle /\ LinkIdle /\ AbilIdle
    /\ OrderIdle /\ ExportIdle /\ IndexIdle

NextTable ==
    \/ \E c \in TableChars : NextChar(c)
    \/ \E s \in TableSelectors, m \in TableModis : nsel < MaxEntries /\ Select(s, m)
    \/ Step
    \/ Finish

SpecTable == InitTable /\ [][NextTable]_vars

(***************************************************************************)
(* Remove.__call__ and Strip.__call__ as functions of the text: SpecText   *)
(* draws a text and a pattern and calls one of them.                       *)
(***************************************************************************)
MaxTextLen == 3
MaxPatLen == 2

SeqsUpTo(S, n) == UNION { [1..k -> S] : k \in 0..n }

Texts == SeqsUpTo(Chars, MaxTextLen)
Patterns == { [lit |-> l, dotstar |-> d] : l \in SeqsUpTo(Chars, MaxPatLen),
                                           d \in BOOLEAN }

TextInit ==
    /\ arg_text \in Texts
    /\ arg_pattern \in Patterns
    /\ ret_text = <<>>
    /\ text_pc = "input"

\* Remove(pattern)(text)
CallRemove ==
    /\ text_pc = "input"
    /\ LET r == Remove_call(arg_pattern, arg_text)
       IN  /\ ret_text' = r.text
           /\ text_pc' = IF r.ok THEN "removed" ELSE "error"
    /\ UNCHANGED <<arg_text, arg_pattern>>
    /\ UNCHANGED notText

\* Strip()(text)
CallStrip ==
    /\ text_pc = "input"
    /\ ret_text' = Strip_call(arg_text).text
    /\ text_pc' = "stripped"
    /\ UNCHANGED <<arg_text, arg_pattern>>
    /\ UNCHANGED notText

InitText == TextInit /\ EditIdle /\ AdvIdle /\ CodecIdle /\ LinkIdle /\ AbilIdle
            /\ OrderIdle /\ ExportIdle /\ IndexIdle

NextText == CallRemove \/ CallStrip

SpecText == InitText /\ [][NextText]_vars

(***************************************************************************)
(* get_advancement_entries (data_export.py).  A key of DTWUS["Rows"] is    *)
(* [ref, mid, tier], the string ref + "_" + mid + tier: key.split("_")[0]  *)
(* is ref, key.rstrip("0123456789") is [ref, mid].  The for loop reads the *)
(* keys in the order of the table, which is any order; a round that ends   *)
(* in "continue" changes nothing and is not an action.  The description of *)
(* a row stands for itself (the substituted text is not modelled).         *)
(***************************************************************************)
LastTier == 15

Key(ref, mid, tier) == [ref |-> ref, mid |-> mid, tier |-> tier]
key_base(key) == <<key.ref, key.mid>>
key_adv(base, i) == Key(base[1], base[2], i)
startswith_breakfate(key) == key.ref = "breakfate"

TierSets ==
    {{}, 1..LastTier, 1..6, (1..LastTier) \ {3, 9}}
        \cup { (1..LastTier) \ {k} : k \in {1, 2, 7, 14, LastTier} }

AdvInit ==
    /\ \E t1 \in TierSets, t2 \in TierSets, t3 \in TierSets, t4 \in {{}, 1..LastTier} :
          DTWUS = { Key("a", "", i) : i \in t1 } \cup { Key("a", "s", i) : i \in t2 }
                    \cup { Key("b", "", i) : i \in t3 }
                    \cup { Key("breakfate", "", i) : i \in t4 }
    /\ entries = <<>>
    /\ done = {}
    /\ skip = {}
    /\ adv_pc = "loop"

\* the tiers the inner loop copies before it ends: all of them, or those below
\* the first missing one (where it breaks)
tiers_read(base, rows) ==
    IF \E i \in 1..LastTier : key_adv(base, i) \notin rows
    THEN LET i == CHOOSE i \in 1..LastTier :
                      /\ key_adv(base, i) \notin rows
                      /\ \A j \in 1..(i - 1) : key_adv(base, j) \in rows
         IN  1..(i - 1)
    ELSE 1..LastTier

\* a check that never finds the tier-15 row missing
not_up_to_15_never(base, rows) == FALSE

\* f"{key_base}15" not in DTWUS["Rows"]
not_up_to_15(base, rows) == key_adv(base, LastTier) \notin rows

\* one round of "for key in DTWUS['Rows']" that gets past the continues
AdvRound(key) ==
    /\ adv_pc = "loop"
    /\ key \in DTWUS
    /\ ~startswith_breakfate(key)
    /\ key.ref \notin done \cup skip
    /\ LET base == key_base(key)
           read == tiers_read(base, DTWUS)
       IN  IF not_up_to_15(base, DTWUS)
           THEN /\ adv_pc' = "error"
                /\ UNCHANGED <<entries, done, skip>>
           ELSE /\ adv_pc' = "loop"
                /\ skip' = IF read # 1..LastTier THEN skip \cup {key.ref} ELSE skip
                \* the break leaves the inner loop only: the append below runs
                /\ entries' = Append(entries,
                        [ref_name |-> key.ref,
                         adv |-> [i \in read |-> key_adv(base, i)]])
                /\ done' = done \cup {key.ref}
    /\ UNCHANGED DTWUS
    /\ UNCHANGED notAdv

\* the table is exhausted: return entries
AdvReturn ==
    /\ adv_pc = "loop"
    /\ \A key \in DTWUS : startswith_breakfate(key) \/ key.ref \in done \cup skip
    /\ adv_pc' = "returned"
    /\ UNCHANGED <<DTWUS, entries, done, skip>>
    /\ UNCHANGED notAdv

InitAdv == AdvInit /\ EditIdle /\ TextIdle /\ CodecIdle /\ LinkIdle /\ AbilIdle
            /\ OrderIdle /\ ExportIdle /\ IndexIdle

NextAdv == (\E key \in DTWUS : AdvRound(key)) \/ AdvReturn

SpecAdv == InitAdv /\ [][NextAdv]_vars

(***************************************************************************)
(* get_weapons (data_export.py).  The four extractors' results are the     *)
(* inputs; LinkChar is one round of "for char_ref in                       *)
(* get_char_ref_entries()".  A set is iterated in an order the program     *)
(* does not control, so the first hit among the reference names is any hit.*)
(***************************************************************************)
lower(x) ==
    CASE x = "A" -> "a" [] x = "B" -> "b" [] x = "Fen" -> "fen"
      [] x = "Sam" -> "sam" [] OTHER -> x

NameIntroEntry(weapon_name, name_image_path, extra_ref_name) ==
    [weapon_name |-> weapon_name, weapon_intro |-> <<"intro", weapon_name>>,
     weapon_image |-> <<"image", weapon_name>>, element |-> "FLAME",
     category |-> "DPS", name_image_path |-> name_image_path,
     extra_ref_name |-> extra_ref_name]

CharRefEntry(char_name, ref_names, name_image_path) ==
    [char_name |-> char_name,
     char_vertical_banner_image |-> <<"banner", char_name>>,
     char_centered_image |-> <<"centered", char_name>>,
     ref_names |-> ref_names, name_image_path |-> name_image_path]

AbilityItem(name, control) ==
    [name |-> name, desc |-> <<"a">>, icon |-> "i", control |-> control]

Advancements(ref_name) ==
    [ref_name |-> ref_name, adv |-> [i \in 1..LastTier |-> <<ref_name, i>>]]

Abilities(ref_name) ==
    [ref_name |-> ref_name,
     attack |-> <<AbilityItem("n1", <<JUMP>>), AbilityItem("n2", <<ATTACK>>)>>,
     dodge |-> <<AbilityItem("d1", <<DODGE>>)>>,
     skill |-> <<AbilityItem(ref_name, <<>>)>>,
     discharge |-> <<>>]

\* {entry.name_image_path: entry for entry in ...}: a later entry with the same
\* key takes the place of the earlier one
RECURSIVE name_intro_index(_, _, _)
name_intro_index(d, es, i) ==
    IF i > Len(es) THEN d
    ELSE LET e == es[i]
             d1 == IF \E k \in 1..Len(d) : d[k].name_image_path = e.name_image_path
                   THEN [k \in 1..Len(d) |->
                            IF d[k].name_image_path = e.name_image_path THEN e ELSE d[k]]
                   ELSE Append(d, e)
         IN  name_intro_index(d1, es, i + 1)

\* name_intro_d.get(char_ref.name_image_path, None), as an index in values()
exact_entry(vals, key) ==
    IF \E k \in 1..Len(vals) : vals[k].name_image_path = key
    THEN CHOOSE k \in 1..Len(vals) : vals[k].name_image_path = key
    ELSE 0

qualifies(e, ref_names) == e.extra_ref_name # "" /\ e.extra_ref_name \in ref_names

\* for _entry in name_intro_d.values(): if ...: name_intro = _entry
RECURSIVE scan_fallback(_, _, _, _)
scan_fallback(vals, i, ref_names, found) ==
    IF i > Len(vals) THEN found
    ELSE scan_fallback(vals, i + 1, ref_names,
                       IF qualifies(vals[i], ref_names) THEN i ELSE found)

\* the same loop leaving at the first hit
fallback_entry_break(vals, ref_names) ==
    IF \E k \in 1..Len(vals) : qualifies(vals[k], ref_names)
    THEN CHOOSE k \in 1..Len(vals) :
             /\ qualifies(vals[k], ref_names)
             /\ \A j \in 1..(k - 1) : ~qualifies(vals[j], ref_names)
    ELSE 0

\* "for _entry in name_intro_d.values()": the index of the entry name_intro is
\* left bound to, 0 for None
fallback_entry(vals, ref_names) == scan_fallback(vals, 1, ref_names, 0)

\* the same lookup with the reference names taken as written
hits_exact(d, ref_names) == { d[x] : x \in {y \in ref_names : y \in DOMAIN d} }

\* [adv_d.get(x.lower(), None) for x in all_ref_names]: the records the
\* reference names hit in a lower-cased index
hits(d, ref_names) == { d[lower(x)] : x \in {y \in ref_names : lower(y) \in DOMAIN d} }

\* Weapon(char=..., ...) with its __post_init__
LinkedWeapon(char_ref, name_intro, abilities, adv, all_ref_names) ==
    [char |-> char_ref.char_name,
     char_banner_image |-> char_ref.char_vertical_banner_image,
     char_centered_image |-> char_ref.char_centered_image,
     name |-> name_intro.weapon_name,
     image |-> name_intro.weapon_image,
     intro |-> name_intro.weapon_intro,
     element |-> name_intro.element,
     category |-> name_intro.category,
     normals |-> sorted(abilities.attack,
                        [k \in 1..Len(abilities.attack) |-> abilities.attack[k].control]),
     dodges |-> sorted(abilities.dodge,
                       [k \in 1..Len(abilities.dodge) |-> abilities.dodge[k].control]),
     skills |-> abilities.skill,
     discharges |-> abilities.discharge,
     passives |-> <<>>,
     enhancement |-> adv.adv,
     ref_names |-> all_ref_names]

LinkInit ==
    /\ \E x1 \in {"", "Fen"}, k2 \in {"k1", "k2"}, x2 \in {"Fen", "Sam"},
          x3 \in {"", "Sam"} :
          name_intro_entries = << NameIntroEntry("W1", "k1", x1),
                                  NameIntroEntry("W2", k2, x2),
                                  NameIntroEntry("W3", "k3", x3) >>
    /\ \E k1 \in {"k1", "k9"}, r1 \in {{"A"}, {"A", "Fen"}, {"A", "Fen", "Sam"}},
          c2 \in {"A", "B"}, k2 \in {"k2", "k9"}, r2 \in {{"B"}, {"B", "Sam", "Fen"}},
          n \in 1..2 :
          char_ref_entries =
              SubSeq(<< CharRefEntry("A", r1, k1), CharRefEntry(c2, r2, k2) >>, 1, n)
    /\ \E names \in {{}, {"fen"}, {"fen", "sam", "a"}} :
          adv_d = [n \in names |-> Advancements(n)]
    /\ \E names \in {{}, {"sam"}, {"fen", "sam", "b"}} :
          ab_d = [n \in names |-> Abilities(n)]
    /\ link_i = 0
    /\ linked = <<>>
    /\ link_log = <<>>
    /\ link_pc = "loop"

\* an unmatched character taken as an error
unmatched_raise(pc_now) == "error"

\* print("`get_weapons` Cannot match character ..."); continue
unmatched_continue(pc_now) == pc_now

\* one round of "for char_ref in get_char_ref_entries()"
LinkChar ==
    /\ link_pc = "loop"
    /\ link_i < Len(char_ref_entries)
    /\ link_i' = link_i + 1
    /\ LET char_ref == char_ref_entries[link_i + 1]
           vals == name_intro_index(<<>>, name_intro_entries, 1)
           exact == exact_entry(vals, char_ref.name_image_path)
           found == IF exact # 0 THEN exact
                    ELSE fallback_entry(vals, char_ref.ref_names)
           via == IF exact # 0 THEN "key" ELSE IF found # 0 THEN "ref" ELSE "none"
       IN  /\ link_log' = Append(link_log, [char |-> char_ref.char_name, via |-> via,
                                            entry |-> found,
                                            ref_names |-> char_ref.ref_names])
           /\ IF found = 0
              THEN link_pc' = unmatched_continue(link_pc) /\ UNCHANGED linked
              ELSE LET name_intro == vals[found]
                       all_ref_names ==
                           IF name_intro.extra_ref_name # ""
                           THEN char_ref.ref_names \cup {name_intro.extra_ref_name}
                           ELSE char_ref.ref_names
                   IN  IF hits(adv_d, all_ref_names) = {} \/ hits(ab_d, all_ref_names) = {}
                       THEN link_pc' = "error" /\ UNCHANGED linked
                       ELSE \E adv \in hits(adv_d, all_ref_names),
                               abilities \in hits(ab_d, all_ref_names) :
                               /\ linked' = Append(linked,
                                      LinkedWeapon(char_ref, name_intro, abilities,
                                                   adv, all_ref_names))
                               /\ UNCHANGED link_pc
    /\ UNCHANGED <<name_intro_entries, char_ref_entries, adv_d, ab_d>>
    /\ UNCHANGED notLink

\* return weapons
LinkReturn ==
    /\ link_pc = "loop"
    /\ link_i = Len(char_ref_entries)
    /\ link_pc' = "returned"
    /\ UNCHANGED <<name_intro_entries, char_ref_entries, adv_d, ab_d, link_i, linked,
                   link_log>>
    /\ UNCHANGED notLink

InitLink == LinkInit /\ EditIdle /\ TextIdle /\ AdvIdle /\ CodecIdle /\ AbilIdle
            /\ OrderIdle /\ ExportIdle /\ IndexIdle

NextLink == LinkChar \/ LinkReturn

SpecLink == InitLink /\ [][NextLink]_vars

(***************************************************************************)
(* The Exportable codec (data_types.py) and ModificationFunc's own         *)
(* serialize / deserialize (data_edit.py).  A Python value carries its     *)
(* runtime type: <<type, class, payload>>, with a sequence as the payload   *)
(* of a list, a set as that of a set, a sequence of <<key, value>> pairs   *)
(* as that of a dict, the member's name as that of an enum member and the  *)
(* field values as that of a dataclass instance.  A declared type is one   *)
(* of the T... descriptors.  A result is [ok, v]: ok = FALSE is a raised   *)
(* error.                                                                  *)
(***************************************************************************)
PyStr(x) == <<"str", "", x>>
PyInt(n) == <<"int", "", n>>
PyNone == <<"NoneType", "", 0>>
PyList(xs) == <<"list", "", xs>>
PySet(S) == <<"set", "", S>>
PyDict(pairs) == <<"dict", "", pairs>>
PyEnum(cls, name) == <<"enum", cls, name>>
PyObj(cls, f) == <<"obj", cls, f>>

\* type(x) by name, the class of an instance or enum member, and the payload
py(x) == x[1]
class(x) == x[2]
val(x) == x[3]

TPrim(n) == [t |-> "prim", name |-> n]
TList(a) == [t |-> "list", arg |-> a]
TSet(a) == [t |-> "set", arg |-> a]
TDict(k, v) == [t |-> "dict", key |-> k, val |-> v]
TLiteral(prims) == [t |-> "literal", prims |-> prims]
TUnion(args) == [t |-> "union", args |-> args]
TClass(n) == [t |-> "class", name |-> n]

Ok(v) == [ok |-> TRUE, v |-> v]
Err(e) == [ok |-> FALSE, v |-> e]

\* a list of results as the result of the list
AllOk(rs) ==
    IF \A k \in 1..Len(rs) : rs[k].ok THEN Ok([k \in 1..Len(rs) |-> rs[k].v])
    ELSE Err((rs[CHOOSE k \in 1..Len(rs) :
                    ~rs[k].ok /\ \A j \in 1..(k - 1) : rs[j].ok]).v)

Members(cls) ==
    CASE cls = "Element" -> {"PHYSICAL", "FLAME", "VOLT", "FROST", "ALTERED"}
      [] cls = "Category" -> {"DPS", "SUPPORT", "TANK"}
      [] cls = "Operation" -> {"ATTACK", "JUMP", "DODGE", "SNEAK", "DIRECTIONAL_KEY",
                               "HOLD_ATTACK", "AND", "NEXT", "HOLD_DODGE"}

Enums == {"Element", "Category", "Operation"}
ModFuncs == {"ModificationFunc", "TextModi", "AbilityModi", "Strip", "Remove", "Move",
             "Modify", "Previous"}

\* the enums of data_edit.py that name the ModificationFunc classes
ParamlessModFunc == [STRIP |-> "Strip", PREVIOUS |-> "Previous"]
ParamSingleModFunc == [REMOVE |-> "Remove"]
ParamNModFunc == [REMOVE |-> "Remove", MOVE |-> "Move", MODIFY |-> "Modify"]

Values(e) == {e[n] : n \in DOMAIN e}
NameOf(e, cls) == CHOOSE n \in DOMAIN e : e[n] = cls

TStrOrNone == TUnion(<<TPrim("str"), TPrim("NoneType")>>)
NoDefault == [kind |-> "MISSING", v |-> PyNone]
Default(v) == [kind |-> "default", v |-> v]
Factory(v) == [kind |-> "default_factory", v |-> v]
Field(n, ty, d) == [name |-> n, type |-> ty, default |-> d]

\* dataclasses.fields(cls)
fields(cls) ==
    CASE cls = "AbilityItem" ->
            <<Field("name", TPrim("str"), NoDefault),
              Field("desc", TPrim("str"), NoDefault),
              Field("icon", TPrim("str"), NoDefault),
              Field("control", TList(TClass("Operation")), Factory(PyList(<<>>)))>>
      [] cls = "Weapon" ->
            <<Field("char", TPrim("str"), Default(PyStr(""))),
              Field("char_banner_image", TPrim("str"), Default(PyStr(""))),
              Field("char_centered_image", TPrim("str"), Default(PyStr(""))),
              Field("name", TPrim("str"), Default(PyStr(""))),
              Field("image", TPrim("str"), Default(PyStr(""))),
              Field("intro", TPrim("str"), Default(PyStr(""))),
              Field("element", TClass("Element"), Default(PyEnum("Element", "ALTERED"))),
              Field("category", TClass("Category"), Default(PyEnum("Category", "DPS"))),
              Field("normals", TList(TClass("AbilityItem")), Factory(PyList(<<>>))),
              Field("dodges", TList(TClass("AbilityItem")), Factory(PyList(<<>>))),
              Field("skills", TList(TClass("AbilityItem")), Factory(PyList(<<>>))),
              Field("discharges", TList(TClass("AbilityItem")), Factory(PyList(<<>>))),
              Field("passives", TList(TClass("AbilityItem")), Factory(PyList(<<>>))),
              Field("enhancement", TDict(TPrim("int"), TPrim("str")), Factory(PyDict(<<>>))),
              Field("ref_names", TSet(TPrim("str")), Factory(PySet({})))>>
      [] cls = "Remove" -> <<Field("pattern", TPrim("str"), NoDefault)>>
      [] cls = "Move" ->
            <<Field("to", TLiteral({"str"}), NoDefault),
              Field("regex", TStrOrNone, Default(PyNone)),
              Field("post_format",
                    TUnion(<<TClass("TextModi"), TList(TClass("TextModi"))>>),
                    Factory(PyObj("Strip", <<>>))),
              Field("name", TStrOrNone, Default(PyNone)),
              Field("icon", TStrOrNone, Default(PyNone)),
              Field("control", TList(TClass("Operation")), Factory(PyList(<<>>)))>>
      [] cls = "Modify" ->
            <<Field("name", TStrOrNone, Default(PyNone)),
              Field("desc", TStrOrNone, Default(PyNone)),
              Field("icon", TStrOrNone, Default(PyNone)),
              Field("control",
                    TUnion(<<TList(TClass("Operation")), TPrim("NoneType")>>),
                    Default(PyNone))>>
      [] OTHER -> <<>>

\* _ModificationDict
AbilityOrMany == TUnion(<<TPrim("str"), TLiteral({"str"}), TLiteral({"str"})>>)
ModificationDictT ==
    TDict(TPrim("str"),
          TDict(AbilityOrMany,
                TUnion(<<TClass("ModificationFunc"), TList(TClass("ModificationFunc"))>>)))

\* get_origin(_t) as the runtime type name it would be compared with
origin(ty) ==
    CASE ty.t = "list" -> "list" [] ty.t = "set" -> "set" [] ty.t = "dict" -> "dict"
      [] ty.t = "literal" -> "Literal" [] ty.t = "union" -> "Union" [] OTHER -> "None"

\* "_v_type is _t" for a value's runtime type and a declared type
is_type(value, ty) ==
    \/ ty.t = "prim" /\ py(value) = ty.name
    \/ ty.t = "class" /\ py(value) \in {"obj", "enum"} /\ class(value) = ty.name

has_serialize(value) == py(value) \in {"obj", "enum"}
has_deserialize(ty) == ty.t = "class"

\* the elements of a set in the order the iteration happens to take: order lists
\* all strings
set_items(S, order) == SelectSeq(order, LAMBDA x : PyStr(x) \in S)

dict_lookup(pairs, name) ==
    IF \E k \in 1..Len(pairs) : py(pairs[k][1]) = "str" /\ val(pairs[k][1]) = name
    THEN Ok(pairs[CHOOSE k \in 1..Len(pairs) :
                      py(pairs[k][1]) = "str" /\ val(pairs[k][1]) = name][2])
    ELSE Err("Unspecified")

pairs_result(ks, vs) ==
    IF ~AllOk(ks).ok THEN AllOk(ks)
    ELSE IF ~AllOk(vs).ok THEN AllOk(vs)
    ELSE Ok(PyDict([k \in 1..Len(ks) |-> <<ks[k].v, vs[k].v>>]))

same_value(a, b) == py(a) = py(b) /\ class(a) = class(b) /\ a = b

RECURSIVE serialize_to(_, _, _)
RECURSIVE value_serialize(_, _)

\* Exportable.serialize
Exportable_serialize(value, order) ==
    LET fs == fields(class(value))
        rs == [k \in 1..Len(fs) |-> serialize_to(fs[k].type, val(value)[fs[k].name], order)]
    IN  IF AllOk(rs).ok
        THEN Ok(PyDict([k \in 1..Len(fs) |-> <<PyStr(fs[k].name), rs[k].v>>]))
        ELSE AllOk(rs)

\* ModificationFunc.serialize (Previous.serialize for Previous)
ModificationFunc_serialize(value, order) ==
    IF class(value) = "Previous" THEN Ok(PyStr("PREVIOUS"))
    ELSE IF class(value) \in Values(ParamlessModFunc)
    THEN Ok(PyStr(NameOf(ParamlessModFunc, class(value))))
    ELSE IF class(value) \in Values(ParamSingleModFunc)
    THEN LET fs == fields(class(value))
         IN  IF Len(fs) > 1 THEN Err("ValueError: Multiple fields")
             ELSE Ok(PyDict(<< <<PyStr(NameOf(ParamNModFunc, class(value))),
                                 val(value)[fs[1].name]>> >>))
    ELSE IF class(value) \in Values(ParamNModFunc)
    THEN LET fs == fields(class(value))
             kept == SelectSeq(fs, LAMBDA fd :
                         ~(fd.default.kind # "MISSING"
                           /\ same_value(val(value)[fd.name], fd.default.v)))
             rs == [k \in 1..Len(kept) |->
                       serialize_to(kept[k].type, val(value)[kept[k].name], order)]
         IN  IF AllOk(rs).ok
             THEN Ok(PyDict(<< <<PyStr(NameOf(ParamNModFunc, class(value))),
                                 PyDict([k \in 1..Len(kept) |->
                                            <<PyStr(kept[k].name), rs[k].v>>])>> >>))
             ELSE AllOk(rs)
    ELSE Err("ValueError: Cannot serialize class")

\* value.serialize()
value_serialize(value, order) ==
    IF py(value) = "enum" THEN Ok(PyStr(val(value)))
    ELSE IF class(value) \in ModFuncs THEN ModificationFunc_serialize(value, order)
    ELSE IF class(value) = "Modification"
    THEN serialize_to(ModificationDictT, val(value).mods, order)
    ELSE Exportable_serialize(value, order)

\* Exportable._serialize_to
serialize_to(ty, value, order) ==
    IF has_serialize(value) THEN value_serialize(value, order)
    ELSE IF ty.t = "prim" THEN Ok(value)
    ELSE IF ty.t \in {"list", "set"}
    THEN LET xs == IF py(value) = "set" THEN set_items(val(value), order) ELSE val(value)
             items == IF py(value) = "set" THEN [k \in 1..Len(xs) |-> PyStr(xs[k])] ELSE xs
             rs == [k \in 1..Len(items) |-> serialize_to(ty.arg, items[k], order)]
         IN  IF AllOk(rs).ok THEN Ok(PyList(AllOk(rs).v)) ELSE AllOk(rs)
    ELSE IF ty.t = "dict"
    THEN pairs_result([k \in 1..Len(val(value)) |-> serialize_to(ty.key, val(value)[k][1], order)],
                      [k \in 1..Len(val(value)) |-> serialize_to(ty.val, val(value)[k][2], order)])
    ELSE IF ty.t = "literal"
    THEN IF Cardinality(ty.prims) = 1
         THEN serialize_to(TPrim(CHOOSE n \in ty.prims : TRUE), value, order)
         ELSE Err("ValueError: Literal? really?")
    ELSE IF ty.t = "union"
    THEN IF \E k \in 1..Len(ty.args) : ty.args[k].t = "prim" /\ ty.args[k].name = py(value)
         THEN serialize_to(TPrim(py(value)), value, order)
         ELSE IF \E k \in 1..Len(ty.args) :
                     is_type(value, ty.args[k]) \/ py(value) = origin(ty.args[k])
              THEN serialize_to(ty.args[CHOOSE k \in 1..Len(ty.args) :
                        /\ is_type(value, ty.args[k]) \/ py(value) = origin(ty.args[k])
                        /\ \A j \in 1..(k - 1) :
                              ~(is_type(value, ty.args[j]) \/ py(value) = origin(ty.args[j]))],
                        value, order)
              ELSE Err("ValueError: Cannot serialize union type")
    ELSE Err("ValueError: Cannot serialize")

Operation_value ==
    [ATTACK |-> ATTACK, JUMP |-> JUMP, DODGE |-> DODGE, SNEAK |-> SNEAK,
     DIRECTIONAL_KEY |-> DIRECTIONAL_KEY, HOLD_ATTACK |-> HOLD_ATTACK, AND |-> AND,
     NEXT |-> NEXT, HOLD_DODGE |-> HOLD_DODGE]

\* the control of an AbilityItem instance as Operation values
control_values(item) ==
    [k \in 1..Len(val(val(item).control)) |->
        Operation_value[val(val(val(item).control)[k])]]

sorted_items(xs) ==
    PyList(sorted(val(xs), [k \in 1..Len(val(xs)) |-> control_values(val(xs)[k])]))

kw_has(kw, n) == \E k \in 1..Len(kw) : kw[k][1] = n
kw_get(kw, n) == kw[CHOOSE k \in 1..Len(kw) : kw[k][1] = n][2]

\* cls(**kw): the generated __init__ with its defaults, then __post_init__
construct(cls, kw) ==
    LET fs == fields(cls)
        names == {fs[k].name : k \in 1..Len(fs)}
        fld(n) == fs[CHOOSE k \in 1..Len(fs) : fs[k].name = n]
        f == [n \in names |-> IF kw_has(kw, n) THEN kw_get(kw, n) ELSE fld(n).default.v]
    IN  IF \E n \in names : ~kw_has(kw, n) /\ fld(n).default.kind = "MISSING"
        THEN Err("TypeError: missing required argument")
        ELSE IF fs = <<>> THEN Ok(PyObj(cls, <<>>))
        ELSE IF cls = "Weapon"
        THEN Ok(PyObj(cls, [f EXCEPT !.normals = sorted_items(f.normals),
                                     !.dodges = sorted_items(f.dodges)]))
        ELSE Ok(PyObj(cls, f))

RECURSIVE deserialize_as(_, _)
RECURSIVE class_deserialize(_, _)
RECURSIVE union_scan(_, _, _)

\* the loop "for f in fields(cls)" of both deserialize methods, then cls(**d)
fields_deserialize(cls, item) ==
    LET fs == fields(cls)
        given == SelectSeq(fs, LAMBDA fd : dict_lookup(val(item), fd.name).ok)
        rs == [k \in 1..Len(given) |->
                  deserialize_as(given[k].type, dict_lookup(val(item), given[k].name).v)]
    IN  IF py(item) # "dict" THEN Err("AttributeError: get")
        ELSE IF AllOk(rs).ok
        THEN construct(cls, [k \in 1..Len(given) |-> <<given[k].name, rs[k].v>>])
        ELSE AllOk(rs)

\* ModificationFunc.deserialize
ModificationFunc_deserialize(item) ==
    IF py(item) = "str"
    THEN IF val(item) \in DOMAIN ParamlessModFunc
         THEN construct(ParamlessModFunc[val(item)], <<>>)
         ELSE Err("ValueError: Invalid item")
    ELSE IF py(item) # "dict" THEN Err("AttributeError: keys")
    ELSE IF val(item) = <<>> THEN Err("IndexError")
    ELSE LET classname == val(val(item)[1][1])
             arg == val(item)[1][2]
         IN  IF classname \in DOMAIN ParamSingleModFunc
             THEN IF py(arg) = "dict"
                  THEN IF Len(val(arg)) > 1 THEN Err("ValueError: More than one value")
                       ELSE IF Len(val(arg)) = 1
                       THEN construct(ParamSingleModFunc[classname],
                                      << <<"pattern", val(arg)[1][2]>> >>)
                       ELSE construct(ParamSingleModFunc[classname],
                                      << <<"pattern", arg>> >>)
                  ELSE construct(ParamSingleModFunc[classname], << <<"pattern", arg>> >>)
             ELSE IF classname \in DOMAIN ParamNModFunc
             THEN fields_deserialize(ParamNModFunc[classname], arg)
             ELSE Err("ValueError: Cannot find appropriate class")

\* _type.deserialize(value)
class_deserialize(cls, value) ==
    IF cls \in Enums
    THEN IF py(value) = "str" /\ val(value) \in Members(cls)
         THEN Ok(PyEnum(cls, val(value))) ELSE Err("KeyError")
    ELSE IF cls = "Previous" THEN construct("Previous", <<>>)
    ELSE IF cls \in ModFuncs THEN ModificationFunc_deserialize(value)
    ELSE IF cls = "Modification"
    THEN LET d == deserialize_as(ModificationDictT, value)
         IN  IF d.ok THEN Ok(PyObj(cls, [mods |-> d.v])) ELSE d
    ELSE fields_deserialize(cls, value)

\* the first loop over the members of a union, from member k on, then the
\* second ("brute force") loop
union_scan(ty, value, k) ==
    IF k > Len(ty.args)
    THEN IF \E j \in 1..Len(ty.args) : has_deserialize(ty.args[j])
         THEN class_deserialize(
                  ty.args[CHOOSE j \in 1..Len(ty.args) :
                      /\ has_deserialize(ty.args[j])
                      /\ \A i \in 1..(j - 1) : ~has_deserialize(ty.args[i])].name, value)
         ELSE Err("ValueError: Cannot deserialize union type!")
    ELSE IF is_type(value, ty.args[k]) THEN deserialize_as(ty.args[k], value)
    ELSE IF py(value) = origin(ty.args[k]) THEN Err("ValueError: Matching vtype! #TODO")
    ELSE IF origin(ty.args[k]) = "None" /\ has_deserialize(ty.args[k]) /\ py(value) = "dict"
    THEN class_deserialize(ty.args[k].name, value)
    ELSE union_scan(ty, value, k + 1)

\* Exportable._deserialize_as
deserialize_as(ty, value) ==
    IF has_deserialize(ty) THEN class_deserialize(ty.name, value)
    ELSE IF ty.t = "prim" THEN Ok(value)
    ELSE IF ty.t \in {"list", "set"}
    THEN LET rs == [k \in 1..Len(val(value)) |-> deserialize_as(ty.arg, val(value)[k])]
         IN  IF ~AllOk(rs).ok THEN AllOk(rs)
             ELSE IF ty.t = "list" THEN Ok(PyList(AllOk(rs).v))
             ELSE Ok(PySet({rs[k].v : k \in 1..Len(rs)}))
    ELSE IF ty.t = "dict"
    THEN pairs_result([k \in 1..Len(val(value)) |-> deserialize_as(ty.key, val(value)[k][1])],
                      [k \in 1..Len(val(value)) |-> deserialize_as(ty.val, val(value)[k][2])])
    ELSE IF ty.t = "union" THEN union_scan(ty, value, 1)
    ELSE IF ty.t = "literal"
    THEN IF Cardinality(ty.prims) = 1
         THEN serialize_to(TPrim(CHOOSE n \in ty.prims : TRUE), value, <<>>)
         ELSE Err("ValueError: Cannot deserialize mixed literals")
    ELSE Err("ValueError: Cannot process type")

(***************************************************************************)
(* SpecCodec: one value is serialized and the result deserialized.         *)
(***************************************************************************)
Item(name, control) ==
    PyObj("AbilityItem",
          [name |-> PyStr(name), desc |-> PyStr("d"), icon |-> PyStr("i"),
           control |-> PyList([k \in 1..Len(control) |-> PyEnum("Operation", control[k])])])

ItemJump == Item("n1", <<"JUMP">>)
ItemAttack == Item("n2", <<"ATTACK", "AND", "JUMP">>)
ItemPassive == Item("n3", <<>>)

CodecWeapons ==
    {PyObj("Weapon",
           [char |-> PyStr("c"), char_banner_image |-> PyStr("b"),
            char_centered_image |-> PyStr("cc"), name |-> PyStr("w"),
            image |-> PyStr("im"), intro |-> PyStr("in"),
            element |-> PyEnum("Element", el), category |-> PyEnum("Category", cat),
            normals |-> PyList(ns), dodges |-> PyList(ds),
            skills |-> PyList(<<ItemJump>>), discharges |-> PyList(<<>>),
            passives |-> PyList(ps), enhancement |-> PyDict(en),
            ref_names |-> PySet(rn)]) :
        el \in {"FLAME", "ALTERED"}, cat \in {"DPS", "TANK"},
        ns \in {<<>>, <<ItemAttack, ItemJump>>, <<ItemJump, ItemAttack>>,
                <<ItemPassive, ItemAttack>>},
        ds \in {<<>>, <<ItemJump, ItemAttack>>},
        ps \in {<<ItemPassive>>, <<ItemJump, ItemPassive>>},
        en \in {<<>>, << <<PyInt(1), PyStr("e1")>>, <<PyInt(2), PyStr("e2")>> >>},
        rn \in SUBSET {PyStr("r"), PyStr("s")}}

Orders == {<<"r", "s">>, <<"s", "r">>}

StripO == PyObj("Strip", <<>>)
PreviousO == PyObj("Previous", <<>>)
RemoveO(p) == PyObj("Remove", [pattern |-> PyStr(p)])
MoveO(regex, post_format, name, control) ==
    PyObj("Move", [to |-> PyStr("dodges"), regex |-> regex, post_format |-> post_format,
                   name |-> name, icon |-> PyNone, control |-> control])
ModifyO(name, control) ==
    PyObj("Modify", [name |-> name, desc |-> PyNone, icon |-> PyNone, control |-> control])

OperationList == PyList(<<PyEnum("Operation", "ATTACK")>>)

\* what a selector of the edit table maps to
CodecSingles ==
    {StripO, PreviousO, RemoveO("x"),
     MoveO(PyNone, StripO, PyNone, PyList(<<>>)),
     MoveO(PyStr("x"), RemoveO("x"), PyStr("n"), OperationList),
     MoveO(PyStr("x"), PyList(<<StripO, RemoveO("x")>>), PyStr("n"), PyList(<<>>)),
     ModifyO(PyStr("n"), PyNone),
     ModifyO(PyNone, OperationList),
     ModifyO(PyNone, PyList(<<>>))}

CodecLists == {PyList(<<>>), PyList(<<StripO>>), PyList(<<RemoveO("x"), PreviousO>>)}

CodecTables ==
    {PyDict(<<>>)}
    \cup {PyDict(<< <<PyStr("A"), PyDict(<<>>)>> >>)}
    \cup {PyDict(<< <<PyStr("A"), PyDict(<< <<PyStr(s), m>> >>)>> >>) :
            s \in {"skill1", "NORMALS"}, m \in CodecSingles \cup CodecLists}
    \cup {PyDict(<< <<PyStr("A"), PyDict(<< <<PyStr("skill1"), m1>>, <<PyStr("*"), m2>> >>)>>,
                    <<PyStr("B"), PyDict(<< <<PyStr("INFO"), StripO>> >>)>> >>) :
            m1 \in CodecSingles, m2 \in CodecSingles \cup CodecLists}

CodecModifications == {PyObj("Modification", [mods |-> t]) : t \in CodecTables}

CodecInit ==
    /\ codec_in \in CodecWeapons \cup CodecModifications
    /\ codec_ser = <<>>
    /\ codec_out = <<>>
    /\ codec_pc = "start"

\* x.serialize()
Serialize(order) ==
    /\ codec_pc = "start"
    /\ LET r == value_serialize(codec_in, order)
       IN  /\ codec_ser' = r.v
           /\ codec_pc' = IF r.ok THEN "serialized" ELSE "error"
    /\ UNCHANGED <<codec_in, codec_out>>
    /\ UNCHANGED notCodec

\* type(x).deserialize(...)
Deserialize ==
    /\ codec_pc = "serialized"
    /\ LET r == class_deserialize(class(codec_in), codec_ser)
       IN  /\ codec_out' = r.v
           /\ codec_pc' = IF r.ok THEN "done" ELSE "error"
    /\ UNCHANGED <<codec_in, codec_ser>>
    /\ UNCHANGED notCodec

InitCodec == CodecInit /\ EditIdle /\ TextIdle /\ AdvIdle /\ LinkIdle /\ AbilIdle
            /\ OrderIdle /\ ExportIdle /\ IndexIdle

NextCodec == (\E order \in Orders : Serialize(order)) \/ Deserialize

SpecCodec == InitCodec /\ [][NextCodec]_vars

(***************************************************************************)
(* get_ability_entries (data_export.py).  A key of DTGAT["Rows"] is        *)
(* [prefix, ref, kind, tail]: the pattern                                  *)
(* ^GA_F[Pp]layer(.*?)(?:ChangeSkill|BigSkill|Skill|Melee|Evade) matches   *)
(* the prefix, captures ref and stops at kind.  AbilRow is one round of    *)
(* "for key in DTGAT[Rows]" up to the branch loop, AbilBranch one round of *)
(* "for item in branch_struct".  The table is read as the loop meets it:   *)
(* each round draws the row or the branch it reads.                        *)
(***************************************************************************)
MaxBranchReads == 2

RefNames == {"r1", "r2"}

AbilKeys ==
    {[prefix |-> "GA_FPlayer", ref |-> "r1", kind |-> "Skill", tail |-> ""],
     [prefix |-> "GA_FPlayer", ref |-> "r1", kind |-> "Melee", tail |-> ""],
     [prefix |-> "GA_FPlayer", ref |-> "r1", kind |-> "Melee", tail |-> "_Balance"],
     [prefix |-> "GA_FPlayer", ref |-> "r2", kind |-> "Evade", tail |-> ""],
     [prefix |-> "GA_Fplayer", ref |-> "r2", kind |-> "ChangeSkill", tail |-> ""],
     [prefix |-> "GA_Spawn", ref |-> "r1", kind |-> "Skill", tail |-> ""],
     [prefix |-> "GA_Item", ref |-> "r1", kind |-> "Skill", tail |-> ""],
     [prefix |-> "GA_FPlayer", ref |-> "r1", kind |-> "ChangeSkill", tail |-> "BreakFate"]}

RowNames == {"None", "WeaponSkill", "WeaponMelee", "Bogus"}

\* the row's own Name and Desc
RowNameText == "rn"
RowDescText == "rd"

\* lowkey.startswith(("ga_spawn", "ga_artifact")) or lowkey.endswith("breakfate")
key_skipped(key) == key.prefix \in {"GA_Spawn", "GA_Artifact"} \/ key.tail = "BreakFate"

pattern_match(key) == key.prefix \in {"GA_FPlayer", "GA_Fplayer"}

\* the row_name inferred from the key when the curve's RowName is "None"
infer_row_name(key) ==
    CASE key.kind = "ChangeSkill" -> "WeaponChangeSkill"
      [] key.kind \in {"Skill", "BigSkill"} -> "WeaponSkill"
      [] key.kind = "Evade" -> "WeaponEvade"
      [] key.kind = "Melee" -> "WeaponMelee"
      [] OTHER -> "None"

\* match row_name: the list of the Abilities record to append to
append_to(row_name) ==
    CASE row_name = "WeaponSkill" -> "skill"
      [] row_name = "WeaponMelee" -> "attack"
      [] row_name = "WeaponEvade" -> "dodge"
      [] row_name = "WeaponChangeSkill" -> "discharge"
      [] OTHER -> "ValueError"

\* Abilities(ref_name=ref_name)
NewAbilities(ref_name) ==
    [ref_name |-> ref_name, attack |-> <<>>, dodge |-> <<>>, skill |-> <<>>,
     discharge |-> <<>>]

entry_index(ents, ref_name) ==
    IF \E k \in 1..Len(ents) : ents[k].ref_name = ref_name
    THEN CHOOSE k \in 1..Len(ents) : ents[k].ref_name = ref_name
    ELSE 0

\* control[i] with Python's indexing of a list, i counted from 0: a negative
\* index counts from the end
py_index(control, i) ==
    IF i >= 0 /\ i < Len(control) THEN Some(control[i + 1])
    ELSE IF i < 0 /\ -i <= Len(control) THEN Some(control[Len(control) + i + 1])
    ELSE None

RECURSIVE and_scan(_, _)
\* "for op_idx, op in enumerate(control)" from op_idx on
and_scan(control, op_idx) ==
    IF op_idx >= Len(control) THEN "accept"
    ELSE IF control[op_idx + 1] # AND THEN and_scan(control, op_idx + 1)
    ELSE IF py_index(control, op_idx - 1) = None \/ py_index(control, op_idx + 1) = None
    THEN "IndexError"
    ELSE IF py_index(control, op_idx - 1) = py_index(control, op_idx + 1) THEN "reject"
    ELSE and_scan(control, op_idx + 1)

\* the check of an invalid operation combination
and_check(control) ==
    IF control # <<>> /\ \E k \in 1..Len(control) : control[k] = AND
    THEN and_scan(control, 0)
    ELSE "accept"

\* a description is its text and the number of substitution values it asks
\* for; str.format raises IndexError when it is given fewer
Descs == {[text |-> "", holes |-> 0], [text |-> "d{1}", holes |-> 2]}

\* the tokens a branch may carry: 9 is no Operation
Controls ==
    {<<>>, <<ATTACK, AND, ATTACK>>, <<ATTACK, AND, JUMP>>, <<ATTACK, AND>>,
     <<AND, JUMP, JUMP>>, <<AND, ATTACK, JUMP>>, <<9>>}

\* sut: how many rows "<Key>_<i>", i = 1, 2, ..., DTSUT has for the branch
Branches ==
    {b \in [name : {"", "b1"}, ops : Controls, desc : Descs, sut : 0..2] :
        b.desc.holes = 0 => b.sut = 0}

\* a check that finds no name taken
name_taken_never(branch_name, names) == FALSE

\* branch_name in [x.name for x in append_to]
name_taken(branch_name, names) == branch_name \in names

\* one round of "for item in branch_struct": the Abilities record after it, the
\* skip set after it and what happened
read_branch(row, b, abilities, skip_set) ==
    LET branch_name == IF b.name = "" /\ row.n = 1 THEN RowNameText ELSE b.name
        checked == and_check(b.ops)
        names == {abilities[row.append_to][k].name :
                      k \in 1..Len(abilities[row.append_to])}
        branch_desc == IF b.desc.text = "" /\ row.n = 1
                       THEN [text |-> RowDescText, holes |-> 0] ELSE b.desc
        out(ab, sk, chk, what) ==
            [abilities |-> ab, skip |-> sk, and_check |-> chk, outcome |-> what,
             branch_name |-> branch_name]
    IN  IF row.row_name \in {"WeaponMelee", "WeaponEvade"} /\ b.ops = <<>>
        THEN out(abilities, skip_set, "not reached", "operationless")
        ELSE IF \E k \in 1..Len(b.ops) : b.ops[k] \notin Operation
        THEN out(abilities, skip_set, "not reached", "ValueError")
        ELSE IF checked = "IndexError"
        THEN out(abilities, skip_set, checked, "IndexError")
        ELSE IF checked = "reject" THEN out(abilities, skip_set, checked, "invalid operation")
        ELSE IF name_taken(branch_name, names)
        THEN out(abilities, skip_set, checked, "duplicate")
        ELSE IF branch_desc.holes > 0 /\ b.sut = 0
        THEN out(abilities, skip_set, checked, "no values")
        ELSE IF branch_desc.holes > b.sut
        THEN out(abilities, skip_set \cup {row.ref_name}, checked, "substitution error")
        ELSE out([abilities EXCEPT ![row.append_to] =
                     Append(@, [name |-> branch_name,
                                desc |-> <<branch_desc.text, b.sut>>,
                                icon |-> "i", control |-> b.ops])],
                 skip_set, checked, "appended")

AbilInit ==
    /\ ab_entries = <<>>
    /\ ab_skip = {}
    /\ ab_row = <<>>
    /\ ab_left = 0
    /\ ab_nitems = 0
    /\ ab_last = <<>>
    /\ ab_log = <<>>
    /\ ab_pc = "rows"

AbilRow(key, has_balance, curve_row_name, n) ==
    /\ ab_pc = "rows"
    /\ n <= MaxBranchReads - ab_nitems
    /\ IF \/ key_skipped(key)
          \/ ~pattern_match(key)
          \/ key.ref \in ab_skip
          \/ key.tail # "_Balance" /\ has_balance
       THEN UNCHANGED abilVars
       ELSE LET ref_name == key.ref
                ents == IF entry_index(ab_entries, ref_name) = 0
                        THEN Append(ab_entries, NewAbilities(ref_name))
                        ELSE ab_entries
                row_name == IF curve_row_name = "None" THEN infer_row_name(key)
                            ELSE curve_row_name
            IN  /\ ab_entries' = ents
                /\ ab_row' = [ref_name |-> ref_name, row_name |-> row_name,
                              append_to |-> append_to(row_name), n |-> n]
                /\ ab_left' = IF append_to(row_name) = "ValueError" THEN 0 ELSE n
                /\ ab_pc' = IF append_to(row_name) = "ValueError" THEN "error"
                            ELSE IF n = 0 THEN "rows" ELSE "branches"
                /\ UNCHANGED <<ab_skip, ab_nitems, ab_last, ab_log>>
    /\ UNCHANGED notAbil

AbilBranch(b) ==
    /\ ab_pc = "branches"
    /\ ab_left > 0
    /\ LET i == entry_index(ab_entries, ab_row.ref_name)
           r == read_branch(ab_row, b, ab_entries[i], ab_skip)
           raised == r.outcome \in {"ValueError", "IndexError"}
       IN  /\ ab_entries' = [ab_entries EXCEPT ![i] = r.abilities]
           /\ ab_skip' = r.skip
           /\ ab_log' = IF r.outcome \in {"duplicate", "no values", "substitution error",
                                          "appended"}
                        THEN Append(ab_log, [ref_name |-> ab_row.ref_name,
                                             append_to |-> ab_row.append_to,
                                             name |-> r.branch_name,
                                             control |-> b.ops,
                                             outcome |-> r.outcome])
                        ELSE ab_log
           /\ ab_last' = [control |-> b.ops, and_check |-> r.and_check,
                          outcome |-> r.outcome]
           /\ ab_left' = IF raised THEN 0 ELSE ab_left - 1
           /\ ab_pc' = IF raised THEN "error"
                       ELSE IF ab_left = 1 THEN "rows" ELSE "branches"
    /\ ab_nitems' = ab_nitems + 1
    /\ UNCHANGED ab_row
    /\ UNCHANGED notAbil

AbilReturn ==
    /\ ab_pc = "rows"
    /\ ab_pc' = "returned"
    /\ UNCHANGED <<ab_entries, ab_skip, ab_row, ab_left, ab_nitems, ab_last, ab_log>>
    /\ UNCHANGED notAbil

InitAbil == AbilInit /\ EditIdle /\ TextIdle /\ AdvIdle /\ CodecIdle /\ LinkIdle
            /\ OrderIdle /\ ExportIdle /\ IndexIdle

NextAbil ==
    \/ \E key \in AbilKeys, has_balance \in BOOLEAN, curve_row_name \in RowNames,
          n \in 0..MaxBranchReads : AbilRow(key, has_balance, curve_row_name, n)
    \/ \E b \in Branches : AbilBranch(b)
    \/ AbilReturn

SpecAbil == InitAbil /\ [][NextAbil]_vars

(***************************************************************************)
(* Claims about apply_mod, checked under Spec.                             *)
(***************************************************************************)
SortedLists(w, h) ==
    /\ IsSorted(controls_of(w.normals, h))
    /\ IsSorted(controls_of(w.dodges, h))

\* C1: after construction and after any sequence of edit operations, the normals
\* list and the dodges list of every Weapon are sorted by the AbilityItem order.
C1_NormalsDodgesSorted ==
    \A k \in 1..Len(weapons) : SortedLists(weapons[k], heap)

\* the ids of list s, each called exactly once with category cat
CalledOnceEach(calls, s, cat) ==
    /\ Len(calls) = Len(s)
    /\ \A k \in 1..Len(s) :
          Cardinality({j \in 1..Len(calls) : calls[j].id = s[k]}) = 1
    /\ \A j \in 1..Len(calls) : calls[j].cat = cat

\* C5: a category wildcard applies the operation exactly once to every ability
\* that was in that same category when the selector was resolved, with that
\* category as source category, and to no other ability.
C5_WildcardOwnCategory ==
    (pc = "table" /\ sel \in Wildcards)
        => CalledOnceEach(applied, resolved[WildcardCategory(sel)], WildcardCategory(sel))

\* the text with only the match starting at i removed
without_match(text, p, i) ==
    SubSeq(text, 1, i - 1) \o SubSeq(text, i + match_len(text, p, i), Len(text))

\* C8: Move with a capture pattern appends exactly one new AbilityItem to the
\* target category (description: the first match after post-format; name: the
\* override, else the ability's name); the ability stays where it is and loses
\* exactly the matched occurrence; without a match the operation fails and
\* changes nothing.
C8_MoveCapture ==
    [][ (pc = "iter" /\ ~modi.list /\ modi.ops[1].kind = "MOVE"
                     /\ modi.ops[1].regex # None)
        => LET op == modi.ops[1]
               regex == op.regex[1]
               t == loop_items(it, weapons[wpn])[it.i]
               a == heap[t.id]
               i == re_search(regex, a.desc)
               new_id == NewId(heap)
               w == weapons[wpn]
           IN  IF i = 0
               THEN pc' = "error" /\ heap' = heap /\ weapons' = weapons
               ELSE /\ pc' # "error"
                    /\ DOMAIN heap' = (DOMAIN heap) \cup {new_id}
                    /\ weapons'[wpn] = [w EXCEPT ![op.to] = Append(@, new_id)]
                    /\ heap'[new_id].desc = strip(group0(regex, a.desc))
                    /\ heap'[new_id].name = (IF op.name = None THEN a.name ELSE op.name[1])
                    /\ heap'[t.id] = [a EXCEPT !.desc = without_match(a.desc, regex, i)]
                    /\ \A k \in (DOMAIN heap) \ {t.id} : heap'[k] = heap[k]
      ]_vars

(***************************************************************************)
(* Claims about Remove, checked under SpecText.                            *)
(***************************************************************************)
\* the starts of the matches re.sub replaces: the leftmost non-empty match at or
\* after position i, then the leftmost one after its end, and so on
NextMatch(t, p, i) ==
    LET S == {j \in i..Len(t) : match_at(t, p, j) /\ match_len(t, p, j) > 0}
    IN  IF S = {} THEN 0 ELSE CHOOSE j \in S : \A k \in S : j <= k

MatchStarts(t, p) ==
    LET F[n \in 0..Len(t)] ==
            \* the starts found once the first n characters are dealt with
            LET j == NextMatch(t, p, n + 1)
            IN  IF j = 0 THEN {} ELSE {j} \cup F[j + match_len(t, p, j) - 1]
    IN  F[0]

Matched(t, p, starts) ==
    {k \in 1..Len(t) : \E j \in starts : j <= k /\ k < j + match_len(t, p, j)}

RECURSIVE Keep(_, _, _)
Keep(t, drop, k) ==
    IF k > Len(t) THEN <<>>
    ELSE (IF k \in drop THEN <<>> ELSE <<t[k]>>) \o Keep(t, drop, k + 1)

AllMatchesDeleted(t, p) == Keep(t, Matched(t, p, MatchStarts(t, p)), 1)

FirstMatchDeleted(t, p) ==
    LET j == NextMatch(t, p, 1)
    IN  IF j = 0 THEN t ELSE Keep(t, Matched(t, p, {j}), 1)

\* C7 (as stated): Remove returns the text with only the first match deleted
\* (later matches stay); if that leaves the text unchanged it fails.
C7_RemoveFirstMatchOnly ==
    /\ text_pc = "removed" => ret_text = FirstMatchDeleted(arg_text, arg_pattern)
    /\ text_pc = "error" => FirstMatchDeleted(arg_text, arg_pattern) = arg_text

\* C7 (amended): Remove returns the text with every non-overlapping match
\* deleted, scanning left to right; if that leaves the text unchanged (no match,
\* or only empty matches) it fails instead of returning the text.
C7_RemoveEveryMatch ==
    /\ text_pc = "removed" =>
          /\ ret_text = AllMatchesDeleted(arg_text, arg_pattern)
          /\ ret_text # arg_text
    /\ text_pc = "error" => AllMatchesDeleted(arg_text, arg_pattern) = arg_text

\* a text with two matches, both deleted by Remove
C7_Witness ==
    /\ text_pc = "removed"
    /\ Cardinality(MatchStarts(arg_text, arg_pattern)) >= 2
    /\ Len(ret_text) = Len(arg_text) - 2 * Len(arg_pattern.lit)

(***************************************************************************)
(* Claims about get_advancement_entries, checked under SpecAdv.            *)
(***************************************************************************)
\* the bases of reference ref that have tier 15 but lack some tier in between
Gapped(ref) ==
    { b \in {<<ref, "">>, <<ref, "s">>} :
        /\ key_adv(b, LastTier) \in DTWUS
        /\ \E k \in 2..(LastTier - 1) : key_adv(b, k) \notin DTWUS }

\* C2: a reference group that lacks a tier k (1 < k < 15) while tier 15 exists
\* is excluded from the returned list (no partial record with tiers 1..k-1);
\* every returned record holds exactly the tiers 1..15.
C2_IncompleteGroupExcluded ==
    adv_pc = "returned" =>
        \A n \in 1..Len(entries) :
            /\ DOMAIN entries[n].adv = 1..LastTier
            /\ \A i \in DOMAIN entries[n].adv :
                  key_base(entries[n].adv[i]) \notin Gapped(entries[n].ref_name)

(***************************************************************************)
(* Claims about get_weapons, checked under SpecLink.                       *)
(***************************************************************************)
name_intro_values == name_intro_index(<<>>, name_intro_entries, 1)

Qualifying(ref_names) ==
    {k \in 1..Len(name_intro_values) : qualifies(name_intro_values[k], ref_names)}

NoExactMatch(l) == l.via # "key"

RoundTripOver(cls) ==
    (codec_pc \in {"done", "error"} /\ class(codec_in) = cls)
        => (codec_pc = "done" /\ codec_out = codec_in)

\* C3: Weapon.deserialize(w.serialize()) == w for every Weapon w of the
\* declared field types, normals and dodges in any order.
C3_WeaponRoundTrip == RoundTripOver("Weapon")

\* C4: Modification.deserialize(m.serialize()) == m for every edit table m
\* whose selectors map to one operation or to a list of operations;
\* deserialization never fails on what serialize produced.
C4_ModificationRoundTrip == RoundTripOver("Modification")

(***************************************************************************)
(* Claims about get_ability_entries, checked under SpecAbil.               *)
(***************************************************************************)
\* some AND sits immediately between two identical tokens
Flanked(control) ==
    \E i \in 2..(Len(control) - 1) :
        control[i] = AND /\ control[i - 1] = control[i + 1]

\* C9: a branch whose control reaches the AND validation is rejected exactly
\* when some AND token sits immediately between two identical tokens, and is
\* accepted otherwise, AND first or last included.
C9_AndValidation ==
    (ab_nitems > 0 /\ ab_last.and_check # "not reached")
        => /\ ab_last.and_check = "reject" <=> Flanked(ab_last.control)
           /\ ab_last.and_check = "accept" <=> ~Flanked(ab_last.control)

\* C10: get_ability_entries never aborts, whatever the table holds.
C10_NeverAborts == ab_pc # "error"

(***************************************************************************)
(* Further claims about get_weapons, checked under SpecLink.               *)
(***************************************************************************)
\* all_ref_names of a round that resolved a name/intro entry
MergedRefNames(l) ==
    LET x == name_intro_values[l.entry].extra_ref_name
    IN  IF x # "" THEN l.ref_names \cup {x} ELSE l.ref_names

HitsIndex(d, names) == \E x \in names : lower(x) \in DOMAIN d

\* a round that resolved a name/intro entry and found no advancement record or
\* no ability record under any of its reference names
Unlinked(l) ==
    /\ l.entry # 0
    /\ \/ ~HitsIndex(adv_d, MergedRefNames(l))
       \/ ~HitsIndex(ab_d, MergedRefNames(l))

SameItems(s, t) ==
    Len(s) = Len(t) /\ {s[k] : k \in 1..Len(s)} = {t[k] : k \in 1..Len(t)}

\* C11: get_weapons fails, in the round of that character (whose name the
\* error carries) and without returning a list, whenever a character that
\* resolved a name/intro entry has no reference name hitting the advancement
\* index or none hitting the ability index, case-insensitively; it fails for
\* no other reason; and every Weapon it builds takes its enhancement and its
\* abilities from records indexed under the lower-cased form of one of the
\* Weapon's ref_names.
C11_MissingLinkageFails ==
    /\ \A n \in 1..Len(link_log) :
          Unlinked(link_log[n]) => (link_pc = "error" /\ n = Len(link_log))
    /\ link_pc = "error" =>
          (Len(link_log) > 0 /\ Unlinked(link_log[Len(link_log)]))
    /\ \A m \in 1..Len(linked) :
          LET w == linked[m]
          IN  /\ \E x \in w.ref_names :
                    /\ lower(x) \in DOMAIN adv_d
                    /\ lower(adv_d[lower(x)].ref_name) = lower(x)
                    /\ w.enhancement = adv_d[lower(x)].adv
              /\ \E x \in w.ref_names :
                    /\ lower(x) \in DOMAIN ab_d
                    /\ lower(ab_d[lower(x)].ref_name) = lower(x)
                    /\ SameItems(w.normals, ab_d[lower(x)].attack)
                    /\ SameItems(w.dodges, ab_d[lower(x)].dodge)
                    /\ w.skills = ab_d[lower(x)].skill
                    /\ w.discharges = ab_d[lower(x)].discharge

\* the second character fails on a missing record after the first was linked
\* through a reference name that differs from the index key in case only
C11_Witness ==
    /\ link_pc = "error"
    /\ Len(linked) = 1
    /\ Unlinked(link_log[Len(link_log)])
    /\ \A x \in linked[1].ref_names : x \notin DOMAIN adv_d

\* C19: no two Weapons of the list get_weapons returns have the same char.
C19_UniqueChar ==
    link_pc = "returned" =>
        \A m, n \in 1..Len(linked) : linked[m].char = linked[n].char => m = n

(***************************************************************************)
(* Claims about apply_mod on longer tables, checked under SpecTable.       *)
(***************************************************************************)
IsPrevious(e) == e.entry = Single(Previous)

PreviousRefused == pc = "error" /\ err = "ValueError: Cannot use PREVIOUS"

\* the entries of the current character that were resolved to operations
Resolved(k) == k \in 1..Len(table_log) /\ ~(k = Len(table_log) /\ PreviousRefused)

\* C12: a PREVIOUS entry is applied with exactly the operation(s) applied to
\* the selector just before it in the same character; through a run of
\* PREVIOUS entries each one applies the operation(s) of the last entry before
\* the run that is not PREVIOUS; and the calls made for the selector use the
\* operation(s) the entry resolved to.
C12_PreviousRepeats ==
    /\ \A k \in 1..Len(table_log) :
          (Resolved(k) /\ IsPrevious(table_log[k])) =>
              /\ k > 1
              /\ table_log[k].modi = table_log[k - 1].modi
              /\ \E j \in 1..(k - 1) :
                    /\ ~IsPrevious(table_log[j])
                    /\ \A i \in (j + 1)..k : IsPrevious(table_log[i])
                    /\ table_log[k].modi = table_log[j].entry
    /\ pc = "iter" => modi = table_log[Len(table_log)].modi

\* a character whose second and third entries are PREVIOUS after a Modify, the
\* third applied to its abilities
C12_Witness ==
    /\ Len(table_log) = 3
    /\ table_log[1].entry = Single(Modify(None, None, Some(<<ATTACK>>)))
    /\ IsPrevious(table_log[2]) /\ IsPrevious(table_log[3])
    /\ pc = "table"
    /\ applied # <<>>
    /\ \A k \in 1..Len(applied) : heap[applied[k].id].control = <<ATTACK>>

FirstEntryPrevious == Len(table_log) >= 1 /\ IsPrevious(table_log[1])

\* C13: when the first entry of a character is PREVIOUS, reading it ends
\* apply_mod with the error and changes no ability and no list, whatever was
\* applied to the characters before.
C13_PreviousFirstFails ==
    [][ (~FirstEntryPrevious /\ FirstEntryPrevious') =>
            /\ pc' = "error"
            /\ err' = "ValueError: Cannot use PREVIOUS"
            /\ applied' = <<>>
            /\ heap' = heap
            /\ weapons' = weapons ]_vars

\* PREVIOUS refused as the first entry of the second character, after the
\* first character's abilities were edited
C13_Witness ==
    /\ PreviousRefused
    /\ FirstEntryPrevious
    /\ Cardinality(used_chars) = 2
    /\ heap # Objects

AbilityFields == {"name", "desc", "icon", "control"}

\* the selector being applied has the single operation Modify
ModifyRunning == pc = "iter" /\ ~modi.list /\ modi.ops[1].kind = "MODIFY"

\* C17: a call of Modify on an ability overwrites exactly the fields the
\* operation specifies, with the specified values; the other fields of the
\* ability, every other ability, and all category lists (so the ability's
\* position too) stay as they were, and the call does not fail.
C17_ModifyFrame ==
    [][ ModifyRunning =>
            LET t == loop_items(it, weapons[wpn])[it.i].id
                op == modi.ops[1]
            IN  /\ pc' # "error"
                /\ DOMAIN heap' = DOMAIN heap
                /\ \A f \in AbilityFields :
                      heap'[t][f] = IF op[f] # None THEN op[f][1] ELSE heap[t][f]
                /\ \A i \in DOMAIN heap : i # t => heap'[i] = heap[i]
                /\ weapons' = weapons ]_vars

\* Modify(name, desc) was applied to an ability that kept its icon and its
\* control
C17_Witness ==
    /\ pc \in {"iter", "table"}
    /\ modi = Single(Modify(Some("r"), Some(<<"a">>), None))
    /\ applied # <<>>
    /\ LET a == heap[applied[1].id]
       IN  /\ a.name = "r" /\ a.desc = <<"a">>
           /\ a.icon = Objects[applied[1].id].icon
           /\ a.control = Objects[applied[1].id].control
           /\ a.control # <<>>

\* the first k operations of m
Prefix(m, k) == [list |-> TRUE, ops |-> SubSeq(m.ops, 1, k)]

\* the call of _apply_mod_single the loop makes next, cut after k operations
CallUpTo(k) ==
    LET target == loop_items(it, weapons[wpn])[it.i]
    IN  apply_mod_single(Prefix(modi, k),
                         [heap |-> heap, w |-> weapons[wpn], err |-> ""],
                         target.id, target.cat)

FailingOps == {k \in 1..Len(modi.ops) : CallUpTo(k).err # ""}

FirstFailing == CHOOSE k \in FailingOps : \A j \in FailingOps : k <= j

\* C18: an error ends apply_mod.  A call of _apply_mod_single fails exactly
\* when one of its operations does, with that operation's error, and leaves
\* the abilities and lists as the operations before the failing one made them:
\* no later operation of the list is applied.  An error raised while reading
\* the table (unknown character or selector, PREVIOUS without predecessor)
\* changes nothing.  After any error no further step is taken, so no later
\* selector or character is processed.
C18_ErrorAborts ==
    [][ /\ pc # "error"
        /\ (pc = "table" /\ pc' = "error") => (heap' = heap /\ weapons' = weapons)
        /\ pc = "iter" =>
              IF FailingOps = {} THEN pc' # "error"
              ELSE /\ pc' = "error"
                   /\ err' = CallUpTo(FirstFailing).err
                   /\ heap' = CallUpTo(FirstFailing - 1).heap
                   /\ weapons' = [weapons EXCEPT ![wpn] = CallUpTo(FirstFailing - 1).w] ]_vars

\* [Strip, PREVIOUS, Remove] applied to the ability with description " a":
\* Strip was applied, the invalid PREVIOUS raised, Remove never ran
C18_Witness ==
    /\ pc = "error"
    /\ err = "ValueError: Invalid item"
    /\ modi = Many(<<Strip, Previous, Remove(PatA)>>)
    /\ applied # <<>>
    /\ heap[applied[Len(applied)].id].desc = <<"a">>

(***************************************************************************)
(* Further claims about apply_mod, checked under Spec.                     *)
(***************************************************************************)
FourCategories == {"normals", "dodges", "skills", "discharges"}

\* C14: the selector "*" applies the operation exactly once to every ability
\* that was in normals, dodges, skills or discharges when the selector was
\* resolved, each call with the category list the ability was in, abilities of
\* the same name in different categories included.
C14_StarCoversAll ==
    (pc = "table" /\ sel = "*") =>
        /\ \A cat \in FourCategories : \A k \in 1..Len(resolved[cat]) :
              /\ Cardinality({j \in 1..Len(applied) :
                                 applied[j].id = resolved[cat][k]}) = 1
              /\ \A j \in 1..Len(applied) :
                    applied[j].id = resolved[cat][k] => applied[j].cat = cat
        /\ Len(applied) = Len(resolved.normals) + Len(resolved.dodges)
                              + Len(resolved.skills) + Len(resolved.discharges)

FiveCategories == FourCategories \cup {"passives"}

Occurrences(s, a) == Cardinality({k \in 1..Len(s) : s[k] = a})

\* how often object a occurs in the five category lists of weapon w
InWeapon(w, a) ==
    Occurrences(w.normals, a) + Occurrences(w.dodges, a) + Occurrences(w.skills, a)
        + Occurrences(w.discharges, a) + Occurrences(w.passives, a)

WithoutObject(s, a) == SelectSeq(s, LAMBDA x : x # a)

\* the selector being applied has the single operation Move, without capture
MoveWholeRunning == pc = "iter" /\ ~modi.list /\ modi.ops[1].kind = "MOVE"
                        /\ modi.ops[1].regex = None

\* C16: Move without a capture pattern, called for an ability a that is in
\* its source list S, takes exactly the object a out of S and appends it to
\* the end of the target list T; afterwards a is in T once, every object
\* occurs in the five lists as often as before, and no ability's field has
\* changed.
C16_MoveWholeFrame ==
    [][ MoveWholeRunning =>
            LET target == loop_items(it, weapons[wpn])[it.i]
                a == target.id
                S == target.cat
                T == modi.ops[1].to
                w == weapons[wpn]
                taken == [w EXCEPT ![S] = WithoutObject(w[S], a)]
            IN  Occurrences(w[S], a) = 1 =>
                    /\ pc' # "error"
                    /\ weapons'[wpn] = [taken EXCEPT ![T] = Append(taken[T], a)]
                    /\ Occurrences(weapons'[wpn][T], a) = 1
                    /\ \A i \in DOMAIN heap : InWeapon(weapons'[wpn], i) = InWeapon(w, i)
                    /\ heap' = heap ]_vars

(***************************************************************************)
(* AbilityItem.__lt__ as a function of the two control lists: SpecOrder    *)
(* draws self.control and other.control and compares them.                 *)
(***************************************************************************)
MaxControlLen == 3

OrderTokens == {ATTACK, JUMP, DODGE, DIRECTIONAL_KEY}

OrderControls == SeqsUpTo(OrderTokens, MaxControlLen)

OrderInit ==
    /\ lt_self \in OrderControls
    /\ lt_other \in OrderControls
    /\ lt_ret = FALSE
    /\ lt_pc = "input"

\* self < other
Compare ==
    /\ lt_pc = "input"
    /\ lt_ret' = AbilityItem_lt(lt_self, lt_other)
    /\ lt_pc' = "returned"
    /\ UNCHANGED <<lt_self, lt_other>>
    /\ UNCHANGED notOrder

InitOrder == OrderInit /\ EditIdle /\ TextIdle /\ AdvIdle /\ CodecIdle /\ LinkIdle
             /\ AbilIdle /\ ExportIdle /\ IndexIdle

NextOrder == Compare

SpecOrder == InitOrder /\ [][NextOrder]_vars

(***************************************************************************)
(* Claims about the order of AbilityItems, checked under SpecOrder.        *)
(***************************************************************************)
\* the control with DIRECTIONAL_KEY counted as 1, every other token as itself
Remapped(c) == [k \in 1..Len(c) |-> IF c[k] = DIRECTIONAL_KEY THEN 1 ELSE c[k]]

Differing(x, y) == {k \in 1..Min(Len(x), Len(y)) : x[k] # y[k]}

FirstDiffering(x, y) == CHOOSE k \in Differing(x, y) : \A j \in Differing(x, y) : k <= j

IsPrefix(x, y) == Len(x) <= Len(y) /\ SubSeq(y, 1, Len(x)) = x

Less(a, b) ==
    \/ a # <<>> /\ b = <<>>
    \/ /\ a # <<>> /\ b # <<>>
       /\ Differing(Remapped(a), Remapped(b)) # {}
       /\ Remapped(a)[FirstDiffering(Remapped(a), Remapped(b))]
              < Remapped(b)[FirstDiffering(Remapped(a), Remapped(b))]
    \/ /\ a # <<>> /\ b # <<>>
       /\ IsPrefix(Remapped(a), Remapped(b)) \/ IsPrefix(Remapped(b), Remapped(a))
       /\ Len(a) < Len(b)

\* C15: a < b exactly when a's control is non-empty and b's is empty, or both
\* are non-empty and a's remapped value is the smaller one at the first
\* position where the remapped values differ, or both are non-empty, one
\* remapped sequence is a prefix of the other and a's control is shorter.  An
\* empty control is never less than anything, and [DIRECTIONAL_KEY] and
\* [JUMP] are not less than each other.
C15_LessThan ==
    lt_pc = "returned" =>
        /\ lt_ret <=> Less(lt_self, lt_other)
        /\ lt_self = <<>> => ~lt_ret
        /\ {lt_self, lt_other} = {<<DIRECTIONAL_KEY>>, <<JUMP>>} => ~lt_ret

\* [DIRECTIONAL_KEY, ATTACK] compared with [JUMP]: equal remapped values on
\* the common prefix, the longer one is not less
C15_Witness ==
    /\ lt_pc = "returned"
    /\ lt_self = <<DIRECTIONAL_KEY, ATTACK>>
    /\ lt_other = <<JUMP>>
    /\ ~lt_ret

(***************************************************************************)
(* export_assets (data_export.py).  A path is the sequence of the pieces   *)
(* its f-string joins, output_dir first; exp_files holds                   *)
(* <<destination, source>> for every image in the output directory.        *)
(* ExportWeapon is one round of "for wpn in get_weapons()".                *)
(***************************************************************************)
MaxExported == 2

\* helper.kebab_case
kebab_case(item) ==
    CASE item = "A" -> "a" [] item = "B" -> "b" [] item = "A b" -> "a-b"
      [] item = "Export" -> "export"
      [] OTHER -> item

\* a linked Weapon as the exporter reads it: its character, its three image
\* paths and the icon paths of normals + dodges + skills + discharges
ExportedWeapon(char, icons) ==
    [char |-> char,
     char_banner_image |-> <<"Output-UEx", "banner", char>>,
     char_centered_image |-> <<"Output-UEx", "centered", char>>,
     image |-> <<"Output-UEx", "weapon", char>>,
     icons |-> [k \in 1..Len(icons) |-> <<"Output-UEx", "icon", icons[k]>>]]

ExportedWeapons ==
    { ExportedWeapon("A", <<"i1", "i2">>), ExportedWeapon("A b", <<"i1">>),
      ExportedWeapon("B", <<>>), ExportedWeapon("Export", <<"i2">>) }

OutputDirs == {"export", "out"}

Call(name, arg) == [call |-> name, arg |-> arg]

exists(files, dst) == \E f \in files : f[1] = dst

\* shutil.copy(src, dst)
copy(files, src, dst) == {f \in files : f[1] # dst} \cup {<<dst, src>>}

\* export_image_from_instance: the files afterwards
export_image(files, src, dst) == IF exists(files, dst) THEN files ELSE copy(files, src, dst)

\* dst.replace(dst_trim, ""): every piece equal to dst_trim goes, wherever it is
str_replace(dst, dst_trim) == SelectSeq(dst, LAMBDA piece : piece # dst_trim)

\* the path stored in the instance: "if dst_trim: dst = dst.replace(dst_trim, '')"
trimmed(dst, dst_trim) == IF dst_trim # "" THEN str_replace(dst, dst_trim) ELSE dst

\* os.path.basename of an icon path
basename(path) == path[Len(path)]

\* the ability images of one weapon, in list order
RECURSIVE export_icons_from(_, _, _, _)
export_icons_from(files, icons, i, output_dir) ==
    IF i > Len(icons) THEN files
    ELSE export_icons_from(
             export_image(files, icons[i],
                          <<output_dir, "/images/ability/", basename(icons[i])>>),
             icons, i + 1, output_dir)

ElementIcons ==
    { <<"fire", "flame">>, <<"thunder", "volt">>, <<"physics", "physical">>,
      <<"ice", "frost">>, <<"powers", "altered">> }

CategoryIcons == { <<"fangyu", "tank">>, <<"qianggong", "dps">>, <<"zengyi", "sup">> }

ExportInit ==
    /\ exp_args \in [weapons : BOOLEAN, icons : BOOLEAN, compress : BOOLEAN,
                     output_dir : OutputDirs]
    /\ exp_weapons = <<>>
    /\ exp_i = 0
    /\ exp_files \in { {}, { << <<exp_args.output_dir, "/images/char/", "a", ".png">>,
                                <<"Output-UEx", "old">> >> } }
    /\ exp_trace = <<>>
    /\ exp_pc = "start"

\* export_assets up to the loop of _export_weapons: "if weapons:" and the
\* call of get_weapons(), which returns a list or raises
ExportStart ==
    /\ exp_pc = "start"
    /\ IF exp_args.weapons
       THEN /\ exp_trace' = Append(exp_trace, Call("get_weapons", ""))
            /\ \/ /\ exp_weapons' \in SeqsUpTo(ExportedWeapons, MaxExported)
                  /\ exp_pc' = "weapons"
               \/ /\ exp_pc' = "error"
                  /\ UNCHANGED exp_weapons
       ELSE /\ exp_pc' = "icons"
            /\ UNCHANGED <<exp_weapons, exp_trace>>
    /\ UNCHANGED <<exp_args, exp_i, exp_files>>
    /\ UNCHANGED notExport

\* one round of "for wpn in get_weapons()": the three images, the ability
\* icons, then wpn.serialize() written to <char>.json
ExportWeapon ==
    /\ exp_pc = "weapons"
    /\ exp_i < Len(exp_weapons)
    /\ LET w == exp_weapons[exp_i + 1]
           char == kebab_case(w.char)
           output_dir == exp_args.output_dir
           banner == <<output_dir, "/images/char/", char, "-banner.png">>
           centered == <<output_dir, "/images/char/", char, ".png">>
           weapon == <<output_dir, "/images/weapon/", char, ".png">>
           f1 == export_image(exp_files, w.char_banner_image, banner)
           f2 == export_image(f1, w.char_centered_image, centered)
           f3 == export_image(f2, w.image, weapon)
           exported == [w EXCEPT
                          !.char_banner_image = trimmed(banner, output_dir),
                          !.char_centered_image = trimmed(centered, output_dir),
                          !.image = trimmed(weapon, output_dir),
                          !.icons = [k \in 1..Len(w.icons) |->
                                        trimmed(<<output_dir, "/images/ability/",
                                                  basename(w.icons[k])>>, output_dir)]]
       IN  /\ exp_files' = export_icons_from(f3, w.icons, 1, output_dir)
           /\ exp_weapons' = [exp_weapons EXCEPT ![exp_i + 1] = exported]
           /\ exp_trace' = exp_trace \o << Call("serialize", w.char),
                                           Call("write", char) >>
    /\ exp_i' = exp_i + 1
    /\ UNCHANGED <<exp_args, exp_pc>>
    /\ UNCHANGED notExport

\* the loop of _export_weapons is over
ExportWeaponsDone ==
    /\ exp_pc = "weapons"
    /\ exp_i = Len(exp_weapons)
    /\ exp_pc' = "icons"
    /\ UNCHANGED <<exp_args, exp_weapons, exp_i, exp_files, exp_trace>>
    /\ UNCHANGED notExport

\* if icons: _export_icons(output_dir)
ExportIcons ==
    /\ exp_pc = "icons"
    /\ IF exp_args.icons
       THEN /\ exp_files' =
                  {f \in exp_files :
                      f[1][2] \notin {"/images/element/", "/images/category/"}}
                  \cup { << <<exp_args.output_dir, "/images/element/", e[2], ".png">>,
                             <<"Output-UEx", "element", e[1]>> >> : e \in ElementIcons }
                  \cup { << <<exp_args.output_dir, "/images/category/", c[2], ".png">>,
                             <<"Output-UEx", "icon", c[1]>> >> : c \in CategoryIcons }
            /\ exp_trace' = Append(exp_trace, Call("_export_icons", ""))
       ELSE UNCHANGED <<exp_files, exp_trace>>
    /\ exp_pc' = "compress"
    /\ UNCHANGED <<exp_args, exp_weapons, exp_i>>
    /\ UNCHANGED notExport

\* if compress: compress_dir(output_dir, "export.tar.zst", remove_after=True)
ExportCompress ==
    /\ exp_pc = "compress"
    /\ IF exp_args.compress
       THEN /\ exp_files' = {}
            /\ exp_trace' = Append(exp_trace, Call("compress_dir", ""))
       ELSE UNCHANGED <<exp_files, exp_trace>>
    /\ exp_pc' = "done"
    /\ UNCHANGED <<exp_args, exp_weapons, exp_i>>
    /\ UNCHANGED notExport

InitExport == ExportInit /\ EditIdle /\ TextIdle /\ AdvIdle /\ CodecIdle /\ LinkIdle
              /\ AbilIdle /\ OrderIdle /\ IndexIdle

NextExport ==
    ExportStart \/ ExportWeapon \/ ExportWeaponsDone \/ ExportIcons \/ ExportCompress

SpecExport == InitExport /\ [][NextExport]_vars

(***************************************************************************)
(* Claims about the exporter, checked under SpecExport.                    *)
(***************************************************************************)
Called(name, k) == k \in 1..Len(exp_trace) /\ exp_trace[k].call = name

\* C20: in every run of the exporter, apply_mod is called on the linked
\* weapons after get_weapons returned and before any weapon is serialized, so
\* that every document written holds an edited weapon.
C20_EditsBeforeSerialize ==
    \A k \in 1..Len(exp_trace) :
        Called("serialize", k) =>
            \E j \in 1..(k - 1) :
                /\ Called("apply_mod", j)
                /\ \E i \in 1..(j - 1) : Called("get_weapons", i)

(***************************************************************************)
(* Claims about skipped and linked characters, checked under SpecLink.     *)
(***************************************************************************)
\* the name/intro entry a character entry resolves to on its own, 0 for none
EntryOf(char_ref) ==
    IF exact_entry(name_intro_values, char_ref.name_image_path) # 0
    THEN exact_entry(name_intro_values, char_ref.name_image_path)
    ELSE fallback_entry(name_intro_values, char_ref.ref_names)

MergedOf(char_ref) ==
    LET x == name_intro_values[EntryOf(char_ref)].extra_ref_name
    IN  IF x # "" THEN char_ref.ref_names \cup {x} ELSE char_ref.ref_names

\* the Weapons get_weapons can build for a character entry, whatever other
\* character entries the table holds
AloneWeapons(char_ref) ==
    IF EntryOf(char_ref) = 0 THEN {}
    ELSE { LinkedWeapon(char_ref, name_intro_values[EntryOf(char_ref)],
                        abilities, adv, MergedOf(char_ref)) :
               adv \in hits(adv_d, MergedOf(char_ref)),
               abilities \in hits(ab_d, MergedOf(char_ref)) }

\* the rounds that appended a Weapon, in order
LinkedRounds ==
    SelectSeq([n \in 1..Len(link_log) |-> n],
              LAMBDA n : link_log[n].entry # 0 /\ ~Unlinked(link_log[n]))

Skipped(n) == n \in 1..Len(link_log) /\ link_log[n].entry = 0

\* C22: a character that finds no name/intro entry, by key or by reference
\* name, raises nothing and adds no Weapon; the loop goes on, and the Weapons
\* of the other characters are the ones they get on their own, in the order
\* of the character table.
C22_UnmatchedSkipped ==
    /\ \A n \in 1..Len(link_log) :
          Skipped(n) =>
              /\ EntryOf(char_ref_entries[n]) = 0
              /\ ~(link_pc = "error" /\ n = Len(link_log))
    /\ Len(linked) = Len(LinkedRounds)
    /\ \A m \in 1..Len(linked) :
          /\ ~Skipped(LinkedRounds[m])
          /\ linked[m] \in AloneWeapons(char_ref_entries[LinkedRounds[m]])

\* the first character was skipped, the second linked, and the list returned
C22_Witness ==
    /\ link_pc = "returned"
    /\ Len(link_log) = 2
    /\ Skipped(1)
    /\ Len(linked) = 1
    /\ linked[1].char = char_ref_entries[2].char_name

\* the rounds that resolved a name/intro entry, in order
ResolvedRounds ==
    SelectSeq([n \in 1..Len(link_log) |-> n], LAMBDA n : link_log[n].entry # 0)

\* C23: when get_weapons returns, it returns one Weapon per character entry
\* that resolved a name/intro entry, in character-table order; each takes
\* char and the two character images from the character entry, name, image,
\* intro, element and category from the name/intro entry, enhancement from an
\* advancement record and the four ability lists from one ability record
\* found under its reference names, normals and dodges sorted, and has no
\* passives.  With one character entry matching by key that is one Weapon.
C23_LinkedWeapon ==
    link_pc = "returned" =>
        /\ Len(linked) = Len(ResolvedRounds)
        /\ \A m \in 1..Len(linked) :
              LET w == linked[m]
                  c == char_ref_entries[ResolvedRounds[m]]
                  e == name_intro_values[link_log[ResolvedRounds[m]].entry]
              IN  /\ w.char = c.char_name
                  /\ w.char_banner_image = c.char_vertical_banner_image
                  /\ w.char_centered_image = c.char_centered_image
                  /\ w.name = e.weapon_name /\ w.image = e.weapon_image
                  /\ w.intro = e.weapon_intro /\ w.element = e.element
                  /\ w.category = e.category
                  /\ w.passives = <<>>
                  /\ \E x \in w.ref_names :
                        lower(x) \in DOMAIN adv_d /\ w.enhancement = adv_d[lower(x)].adv
                  /\ \E x \in w.ref_names :
                        /\ lower(x) \in DOMAIN ab_d
                        /\ SameItems(w.normals, ab_d[lower(x)].attack)
                        /\ SameItems(w.dodges, ab_d[lower(x)].dodge)
                        /\ w.skills = ab_d[lower(x)].skill
                        /\ w.discharges = ab_d[lower(x)].discharge
                  /\ IsSorted([k \in 1..Len(w.normals) |-> w.normals[k].control])
                  /\ IsSorted([k \in 1..Len(w.dodges) |-> w.dodges[k].control])
        /\ (Len(char_ref_entries) = 1 /\ link_log[1].via = "key") => Len(linked) = 1

\* one character entry, matched by its name-image key: one Weapon, its
\* normals in sorted order, which is not the order of the ability record
C23_Witness ==
    /\ link_pc = "returned"
    /\ Len(char_ref_entries) = 1
    /\ link_log[1].via = "key"
    /\ Len(linked) = 1
    /\ linked[1].normals = <<AbilityItem("n2", <<ATTACK>>), AbilityItem("n1", <<JUMP>>)>>
    /\ \E x \in linked[1].ref_names : lower(x) \in DOMAIN ab_d
                                        /\ linked[1].normals # ab_d[lower(x)].attack

(***************************************************************************)
(* The order as a relation, checked under SpecOrder: the pair compared is  *)
(* taken with every third control of up to two tokens.                     *)
(***************************************************************************)
ThirdControls == SeqsUpTo(OrderTokens, 2)

Incomparable(a, b) == ~AbilityItem_lt(a, b) /\ ~AbilityItem_lt(b, a)

\* C25: "<" on AbilityItems is irreflexive, asymmetric and transitive, and
\* incomparability is transitive; two items are incomparable exactly when
\* both controls are empty or their remapped token sequences are equal; a
\* sorted list has no item that is less than an item before it.
C25_StrictWeakOrder ==
    lt_pc = "returned" =>
        /\ ~AbilityItem_lt(lt_self, lt_self)
        /\ lt_ret => ~AbilityItem_lt(lt_other, lt_self)
        /\ Incomparable(lt_self, lt_other) <=>
               \/ lt_self = <<>> /\ lt_other = <<>>
               \/ Remapped(lt_self) = Remapped(lt_other)
        /\ \A c \in ThirdControls :
              /\ (lt_ret /\ AbilityItem_lt(lt_other, c)) => AbilityItem_lt(lt_self, c)
              /\ (Incomparable(lt_self, lt_other) /\ Incomparable(lt_other, c))
                     => Incomparable(lt_self, c)
              /\ IsSorted(sorted(<<lt_self, lt_other, c>>, <<lt_self, lt_other, c>>))

\* [DIRECTIONAL_KEY, DODGE] and [JUMP, DODGE]: different controls, equal
\* remapped sequences, neither less than the other
C25_Witness ==
    /\ lt_pc = "returned"
    /\ lt_self = <<DIRECTIONAL_KEY, DODGE>>
    /\ lt_other = <<JUMP, DODGE>>
    /\ ~lt_ret
    /\ Incomparable(lt_self, lt_other)

(***************************************************************************)
(* The fatal path of get_advancement_entries, checked under SpecAdv.  The  *)
(* first row seen for a reference is the key of the round that gets past   *)
(* "if ref in done or ref in skip".                                        *)
(***************************************************************************)
OneRecordPerRef(es) ==
    \A n, m \in 1..Len(es) : es[n].ref_name = es[m].ref_name => n = m

\* C27: when the first row seen for a reference has no tier-15 row for its key
\* base, the extractor aborts and returns nothing, whatever it collected from
\* other groups; otherwise the one record of that reference is built from the
\* key base of that row, and no reference ever gets a second record.
C27_FirstRowDecides ==
    [][ /\ \A key \in DTWUS :
             AdvRound(key) =>
                 IF key_adv(key_base(key), LastTier) \notin DTWUS
                 THEN adv_pc' = "error" /\ entries' = entries
                 ELSE /\ adv_pc' = "loop"
                      /\ Len(entries') = Len(entries) + 1
                      /\ LET e == entries'[Len(entries')]
                         IN  /\ e.ref_name = key.ref
                             /\ \A i \in DOMAIN e.adv : key_base(e.adv[i]) = key_base(key)
        /\ adv_pc = "error" => adv_pc' = "error"
        /\ OneRecordPerRef(entries') ]_vars

\* a complete group was collected, then the first row of another reference
\* had no tier 15: the run ends in the error
C27_Witness ==
    /\ adv_pc = "error"
    /\ Len(entries) = 1
    /\ DOMAIN entries[1].adv = 1..LastTier
    /\ entries[1].ref_name = "b"
    /\ \E key \in DTWUS : key.ref = "a" /\ key_adv(key_base(key), LastTier) \notin DTWUS
    /\ \E key \in DTWUS : key.ref = "a" /\ key_adv(key_base(key), LastTier) \in DTWUS

(***************************************************************************)
(* Deduplication in get_ability_entries, checked under SpecDedup.  ab_log  *)
(* holds, in table and branch order, the branches that passed the control  *)
(* validations (operations present where required, no AND between two      *)
(* identical tokens).                                                      *)
(***************************************************************************)
AbilityLists == {"attack", "dodge", "skill", "discharge"}

\* the positions of ab_log read for list l of reference r under name x
ReadAs(r, l, x) ==
    {j \in 1..Len(ab_log) :
        ab_log[j].ref_name = r /\ ab_log[j].append_to = l /\ ab_log[j].name = x}

First(S) == CHOOSE j \in S : \A k \in S : j <= k

ValueFailures == {"no values", "substitution error"}

\* the positions among them that the value substitution did not drop
Filled(S) == {j \in S : ab_log[j].outcome \notin ValueFailures}

DistinctNames(items) ==
    \A n, m \in 1..Len(items) : items[n].name = items[m].name => n = m

OperatedLists(e) ==
    \A l \in {"attack", "dodge"} : \A n \in 1..Len(e[l]) : e[l][n].control # <<>>

\* C26 (as stated): in every returned record the names of each list are
\* pairwise distinct, the item kept for a name is the first branch with that
\* name that passed the control validations, and attack and dodge items have
\* a non-empty control.
C26_FirstValidatedKept ==
    ab_pc = "returned" =>
        \A k \in 1..Len(ab_entries) :
            LET e == ab_entries[k]
            IN  /\ OperatedLists(e)
                /\ \A l \in AbilityLists :
                      /\ DistinctNames(e[l])
                      /\ \A n \in 1..Len(e[l]) :
                            LET S == ReadAs(e.ref_name, l, e[l][n].name)
                            IN  /\ S # {}
                                /\ ab_log[First(S)].outcome = "appended"
                                /\ ab_log[First(S)].control = e[l][n].control

\* C26 (amended): the item kept for a name is the first branch with that name
\* that passed the control validations and was not dropped by the value
\* substitution of its description (no values found, or too few); names are
\* pairwise distinct in each list and attack and dodge items have a non-empty
\* control.
C26_FirstFilledKept ==
    ab_pc = "returned" =>
        \A k \in 1..Len(ab_entries) :
            LET e == ab_entries[k]
            IN  /\ OperatedLists(e)
                /\ \A l \in AbilityLists :
                      /\ DistinctNames(e[l])
                      /\ \A n \in 1..Len(e[l]) :
                            LET S == Filled(ReadAs(e.ref_name, l, e[l][n].name))
                            IN  /\ S # {}
                                /\ ab_log[First(S)].outcome = "appended"
                                /\ ab_log[First(S)].control = e[l][n].control
                                /\ \A j \in S \ {First(S)} : ab_log[j].outcome = "duplicate"

\* two validated branches of one name were read for the same list: the second
\* was dropped as a duplicate and the first is the item returned
C26_Witness ==
    /\ ab_pc = "returned"
    /\ Len(ab_log) = 2
    /\ ab_log[1].outcome = "appended"
    /\ ab_log[2].outcome = "duplicate"
    /\ ab_log[1].control # ab_log[2].control
    /\ \E k \in 1..Len(ab_entries) :
          /\ ab_entries[k].ref_name = ab_log[1].ref_name
          /\ Len(ab_entries[k][ab_log[1].append_to]) = 1
          /\ ab_entries[k][ab_log[1].append_to][1].control = ab_log[1].control

(***************************************************************************)
(* get_ability_entries over a small table: three keys, the curve's RowName *)
(* left to be inferred, and branches whose controls are empty, one token   *)
(* or an AND between two equal tokens.  The actions are those of SpecAbil. *)
(***************************************************************************)
DedupKeys == {key \in AbilKeys : key.tail = "" /\ key.kind \in {"Skill", "Melee", "Evade"}}

DedupBranches ==
    {b \in Branches : b.ops \in {<<>>, <<ATTACK, AND, ATTACK>>, <<ATTACK, AND, JUMP>>}}

NextDedup ==
    \/ \E key \in DedupKeys, n \in 0..MaxBranchReads : AbilRow(key, FALSE, "None", n)
    \/ \E b \in DedupBranches : AbilBranch(b)
    \/ AbilReturn

SpecDedup == InitAbil /\ [][NextDedup]_vars

(***************************************************************************)
(* The keys of a serialized mapping, checked under SpecCodec.              *)
(***************************************************************************)
\* the value stored under a field name in a serialized object
SerializedField(obj, name) ==
    val(obj)[CHOOSE k \in 1..Len(val(obj)) : val(obj)[k][1] = PyStr(name)][2]

\* C21: serializing a Weapon yields an enhancement object whose every key is
\* a string (the string form of the tier number), its values serialized as
\* str.
C21_MappingKeysAreStrings ==
    (codec_pc = "serialized" /\ class(codec_in) = "Weapon") =>
        LET enh == SerializedField(codec_ser, "enhancement")
        IN  /\ py(enh) = "dict"
            /\ \A k \in 1..Len(val(enh)) :
                  /\ py(val(enh)[k][1]) = "str"
                  /\ py(val(enh)[k][2]) = "str"

(***************************************************************************)
(* apply_mod on two weapons that get_weapons linked to one Abilities       *)
(* record: Weapon.__post_init__ gives each its own sorted normals list,    *)
(* and both lists hold the same AbilityItem objects (heap ids 1 and 2).    *)
(* The table's operations are those of SpecTable, none of which changes a  *)
(* list.                                                                   *)
(***************************************************************************)
SharedWeapons ==
    << Weapon("A", <<1, 2>>, <<>>, <<>>, <<>>, Objects),
       Weapon("B", <<1, 2>>, <<>>, <<>>, <<>>, Objects) >>

InitShared ==
    /\ heap = Objects
    /\ weapons = SharedWeapons
    /\ weapon_ability_d = [k \in 1..2 |-> ability_index(weapons[k], heap)]
    /\ pc = "table"
    /\ err = ""
    /\ wpn = 0
    /\ previous_modi = None
    /\ modi = Single(Strip)
    /\ it = NoLoop
    /\ used_chars = {}
    /\ used_sel = {}
    /\ nsel = 0
    /\ sel = ""
    /\ resolved = Categories4(weapons[1])
    /\ applied = <<>>
    /\ table_log = <<>>
    /\ TextIdle /\ AdvIdle /\ CodecIdle /\ LinkIdle /\ AbilIdle
    /\ OrderIdle /\ ExportIdle /\ IndexIdle

SpecShared == InitShared /\ [][NextTable]_vars

\* the five lists of a weapon, each ability written out
Contents(w, h) ==
    [c \in AbilityCategory |-> [k \in 1..Len(w[c]) |-> h[w[c][k]]]]

\* C28: when apply_mod is done, every weapon whose character is not a key of
\* the edit table has the lists it had before and, in them, abilities with
\* the names, descriptions, icons and controls they had before - also when it
\* shares its ability record with an edited character.
C28_OtherWeaponsUnchanged ==
    pc = "done" =>
        \A k \in 1..Len(weapons) :
            weapons[k].char \notin used_chars =>
                Contents(weapons[k], heap) = Contents(SharedWeapons[k], Objects)

(***************************************************************************)
(* apply_mod with selectors that name abilities made or renamed by earlier *)
(* entries: the layout of SpecTable (A: normals [q, p], skills [p];        *)
(* B: skills [q]), the selectors p, q, r and *, and operations that move,  *)
(* capture into a new ability named r, or rename to r.                     *)
(***************************************************************************)
IndexSelectors == {"p", "q", "r", "*"}

IndexModis ==
    { Single(Strip),
      Single(Move("passives", None, Single(StripT), None)),
      Single(Move("normals", Some(PatA), Many(<<StripT>>), Some("r"))),
      Single(Modify(Some("r"), None, None)) }

NextIndex ==
    \/ \E c \in TableChars : NextChar(c)
    \/ \E s \in IndexSelectors, m \in IndexModis : nsel < MaxSelectors /\ Select(s, m)
    \/ Step
    \/ Finish

SpecIndex == InitTable /\ [][NextIndex]_vars

\* the weapons before any edit
IndexWeapons ==
    << Weapon("A", <<2, 1>>, <<>>, <<3>>, <<>>, Objects),
       Weapon("B", <<>>, <<>>, <<4>>, <<>>, Objects) >>

\* the abilities of a weapon in the order normals, dodges, skills, discharges
Scan(w) ==
    [k \in 1..Len(w.normals) |-> [id |-> w.normals[k], cat |-> "normals"]]
    \o [k \in 1..Len(w.dodges) |-> [id |-> w.dodges[k], cat |-> "dodges"]]
    \o [k \in 1..Len(w.skills) |-> [id |-> w.skills[k], cat |-> "skills"]]
    \o [k \in 1..Len(w.discharges) |-> [id |-> w.discharges[k], cat |-> "discharges"]]

\* the positions of the scan that held name s before any edit
NamedBefore(k, s) ==
    {j \in 1..Len(Scan(IndexWeapons[k])) : Objects[Scan(IndexWeapons[k])[j].id].name = s}

LastNamed(k, s) ==
    Scan(IndexWeapons[k])[CHOOSE j \in NamedBefore(k, s) : \A i \in NamedBefore(k, s) : i <= j]

NamedSelectors == IndexSelectors \ {"*"}

\* C29: the name index is never updated, and an entry with a named selector
\* resolves to the object that had the name before any edit, with the
\* category it had then (the last in scan order when there are several);
\* a name no ability had before any edit raises the lookup error, whatever
\* earlier Moves and renames made of the weapon.
C29_IndexIsStale ==
    [][ /\ weapon_ability_d' = weapon_ability_d
        /\ (nsel' = nsel + 1 /\ sel' \in NamedSelectors
                /\ err' # "ValueError: Cannot use PREVIOUS") =>
               IF NamedBefore(wpn, sel') = {}
               THEN pc' = "error" /\ err' = "KeyError: ability"
               ELSE /\ pc' = "iter"
                    /\ loop_items(it', weapons[wpn]) = <<LastNamed(wpn, sel')>> ]_vars

\* an entry renamed p to r (or a Move captured a new ability r); the next entry
\* selects r, which the weapon now holds, and the lookup fails
C29_Witness ==
    /\ pc = "error"
    /\ err = "KeyError: ability"
    /\ sel = "r"
    /\ \E c \in AbilityCategory : \E k \in 1..Len(weapons[wpn][c]) :
          heap[weapons[wpn][c][k]].name = "r"

(***************************************************************************)
(* The image copies of _export_weapons, checked under SpecExport.          *)
(***************************************************************************)
\* a destination path without its leading output_dir
WithoutPrefix(dst) == Tail(dst)

\* C24: in a round of _export_weapons a destination that already exists is
\* not copied to and keeps its file, whatever the source; and each image
\* field of the weapon (and each icon of its abilities) afterwards equals
\* its destination path with the output_dir prefix removed.
C24_CopyOnceAndTrimPrefix ==
    [][ exp_i' = exp_i + 1 =>
          LET before == exp_weapons[exp_i + 1]
              after == exp_weapons'[exp_i + 1]
              output_dir == exp_args.output_dir
              char == kebab_case(before.char)
          IN  /\ \A f \in exp_files : f \in exp_files'
              /\ \A f, g \in exp_files' : f[1] = g[1] => f = g
              /\ after.char_banner_image =
                     WithoutPrefix(<<output_dir, "/images/char/", char, "-banner.png">>)
              /\ after.char_centered_image =
                     WithoutPrefix(<<output_dir, "/images/char/", char, ".png">>)
              /\ after.image =
                     WithoutPrefix(<<output_dir, "/images/weapon/", char, ".png">>)
              /\ \A k \in 1..Len(before.icons) :
                     after.icons[k] =
                         WithoutPrefix(<<output_dir, "/images/ability/",
                                         basename(before.icons[k])>>) ]_vars

(***************************************************************************)
(* create_index (search.py, image_search.py).  The files under the base    *)
(* path are numbered in the order file_iter yields them.  A future is      *)
(* [st, size]: "queued" in the executor, "running" on one of MAX_WORKERS   *)
(* threads, then "ok" (with the size of the content read) or "failed"      *)
(* (the worker returned None).  IndexSubmit is one round of "while not     *)
(* done" up to the as_completed loop, IndexHandle one round of that loop.  *)
(* The program's BATCH_SIZE (1000 and 100), MAX_WORKERS (4), 10 tasks per  *)
(* worker and MAX_BATCH_BYTES (50 MB) are scaled down.                     *)
(***************************************************************************)
MaxFiles == 5
BATCH_SIZE == 2
MAX_WORKERS == 2
TasksPerWorker == 2
MAX_BATCH_BYTES == 2

\* chunk_size = MAX_WORKERS * 10
chunk_size == MAX_WORKERS * TasksPerWorker

IndexModules == {"search", "image_search"}

\* len(content.encode("utf-8")) of a file read; an embedding has no size
ContentSizes(module) == IF module = "search" THEN {1, 2} ELSE {0}

Future(st, size) == [st |-> st, size |-> size]

InState(st) == {f \in DOMAIN ix_futures : ix_futures[f].st = st}

IndexInit ==
    /\ ix_module \in IndexModules
    /\ ix_total \in 0..MaxFiles
    /\ ix_next = 1
    /\ ix_done = FALSE
    /\ ix_futures = <<>>
    /\ ix_batch = <<>>
    /\ ix_bytes = 0
    /\ ix_commits = <<>>
    /\ ix_count = 0
    /\ ix_handled = <<>>
    /\ ix_pc = "count"

\* the files are counted: "if total == 0: return"
IndexCount ==
    /\ ix_pc = "count"
    /\ ix_pc' = IF ix_total = 0 THEN "done" ELSE "submit"
    /\ UNCHANGED <<ix_module, ix_total, ix_next, ix_done, ix_futures, ix_batch, ix_bytes,
                   ix_commits, ix_count, ix_handled>>
    /\ UNCHANGED notIndex

\* "for _ in range(chunk_size)": submit the next files, done = True when the
\* iterator runs out; "if not futures: break"
IndexSubmit ==
    /\ ix_pc = "submit"
    /\ LET left == ix_total - ix_next + 1
           n == Min(left, chunk_size)
       IN  /\ ix_futures' = [f \in ix_next..(ix_next + n - 1) |-> Future("queued", 0)]
           /\ ix_next' = ix_next + n
           /\ ix_done' = (left < chunk_size)
           /\ ix_pc' = IF n = 0 THEN "flush" ELSE "drain"
    /\ UNCHANGED <<ix_module, ix_total, ix_batch, ix_bytes, ix_commits, ix_count,
                   ix_handled>>
    /\ UNCHANGED notIndex

\* a free thread of the pool takes the task submitted first
WorkerStart(f) ==
    /\ f \in InState("queued")
    /\ \A g \in InState("queued") : f <= g
    /\ Cardinality(InState("running")) < MAX_WORKERS
    /\ ix_futures' = [ix_futures EXCEPT ![f] = Future("running", 0)]
    /\ UNCHANGED <<ix_module, ix_total, ix_next, ix_done, ix_batch, ix_bytes, ix_commits,
                   ix_count, ix_handled, ix_pc>>
    /\ UNCHANGED notIndex

\* read_file / read_and_embed_image returns: a result, or None after an error
WorkerFinish(f, ok, size) ==
    /\ f \in InState("running")
    /\ ix_futures' = [ix_futures EXCEPT
                        ![f] = IF ok THEN Future("ok", size) ELSE Future("failed", 0)]
    /\ UNCHANGED <<ix_module, ix_total, ix_next, ix_done, ix_batch, ix_bytes, ix_commits,
                   ix_count, ix_handled, ix_pc>>
    /\ UNCHANGED notIndex

\* the batch left as it is after a commit
batch_kept(batch) == batch

\* batch.clear() / batch_paths.clear()
batch_clear(batch) == <<>>

\* len(batch) >= BATCH_SIZE or batch_size_bytes >= MAX_BATCH_BYTES (search.py);
\* len(batch_paths) >= BATCH_SIZE (image_search.py)
commit_due(module, batch, bytes) ==
    \/ Len(batch) >= BATCH_SIZE
    \/ module = "search" /\ bytes >= MAX_BATCH_BYTES

\* one round of "for future in as_completed(futures)"
IndexHandle(f) ==
    /\ ix_pc = "drain"
    /\ f \in InState("ok") \cup InState("failed")
    /\ LET ok == ix_futures[f].st = "ok"
           batch == Append(ix_batch, f)
           bytes == ix_bytes + ix_futures[f].size
           rest == [g \in (DOMAIN ix_futures) \ {f} |-> ix_futures[g]]
       IN  /\ ix_handled' = Append(ix_handled, [file |-> f, ok |-> ok])
           /\ ix_futures' = rest
           /\ IF ~ok
              THEN UNCHANGED <<ix_batch, ix_bytes, ix_count, ix_commits>>
              ELSE /\ ix_count' = ix_count + 1
                   /\ IF commit_due(ix_module, batch, bytes)
                      THEN /\ ix_commits' = Append(ix_commits, batch)
                           /\ ix_batch' = batch_clear(batch)
                           /\ ix_bytes' = 0
                      ELSE /\ ix_batch' = batch
                           /\ ix_bytes' = bytes
                           /\ UNCHANGED ix_commits
           /\ ix_pc' = IF DOMAIN rest # {} THEN "drain"
                       ELSE IF ix_done THEN "flush" ELSE "submit"
    /\ UNCHANGED <<ix_module, ix_total, ix_next, ix_done>>
    /\ UNCHANGED notIndex

\* "Flush remainder": if batch: insert and commit; the list is not cleared
IndexFlush ==
    /\ ix_pc = "flush"
    /\ ix_commits' = IF ix_batch # <<>> THEN Append(ix_commits, ix_batch) ELSE ix_commits
    /\ ix_pc' = "done"
    /\ UNCHANGED <<ix_module, ix_total, ix_next, ix_done, ix_futures, ix_batch, ix_bytes,
                   ix_count, ix_handled>>
    /\ UNCHANGED notIndex

InitIndex == IndexInit /\ EditIdle /\ TextIdle /\ AdvIdle /\ CodecIdle /\ LinkIdle
             /\ AbilIdle /\ OrderIdle /\ ExportIdle

NextIndexer ==
    \/ IndexCount
    \/ IndexSubmit
    \/ \E f \in 1..MaxFiles : WorkerStart(f)
    \/ \E f \in 1..MaxFiles, ok \in BOOLEAN, size \in ContentSizes(ix_module) :
          WorkerFinish(f, ok, size)
    \/ \E f \in 1..MaxFiles : IndexHandle(f)
    \/ IndexFlush

SpecIndexer == InitIndex /\ [][NextIndexer]_vars

(***************************************************************************)
(* Claims about create_index, checked under SpecIndexer.                   *)
(***************************************************************************)
RECURSIVE Flatten(_)
Flatten(batches) ==
    IF batches = <<>> THEN <<>> ELSE Head(batches) \o Flatten(Tail(batches))

Times(s, x) == Cardinality({i \in 1..Len(s) : s[i] = x})

\* the number of committed batches that hold file x
BatchesWith(x) == Cardinality({b \in 1..Len(ix_commits) : Times(ix_commits[b], x) > 0})

Succeeded == {ix_handled[k].file : k \in {j \in 1..Len(ix_handled) : ix_handled[j].ok}}
Failed == {ix_handled[k].file : k \in {j \in 1..Len(ix_handled) : ~ix_handled[j].ok}}

\* what holds while create_index runs and when it has finished
BatchingInvariant ==
    /\ \A i, j \in 1..Len(ix_handled) : ix_handled[i].file = ix_handled[j].file => i = j
    /\ Len(ix_batch) < BATCH_SIZE
    /\ Cardinality(DOMAIN ix_futures) <= MAX_WORKERS * TasksPerWorker
    /\ \A x \in Failed : Times(Flatten(ix_commits), x) = 0 /\ Times(ix_batch, x) = 0
    /\ ix_pc # "done" =>
          \A x \in Succeeded : Times(Flatten(ix_commits) \o ix_batch, x) = 1
    /\ (ix_pc = "done" /\ ix_total > 0) =>
          /\ Succeeded \cup Failed = 1..ix_total
          /\ \A x \in Succeeded :
                Times(Flatten(ix_commits), x) = 1 /\ BatchesWith(x) = 1
          /\ ix_count = Len(Flatten(ix_commits))

\* C30 (as stated): each file read with success is added to the batch once and
\* is in exactly one committed batch, a failed file in none; the batch holds
\* fewer than BATCH_SIZE items after each result; at most MAX_WORKERS * 10
\* tasks are outstanding; at the end count is the number of committed items
\* and the pending batch is empty.
C30_BatchEmptyAtEnd ==
    /\ BatchingInvariant
    /\ ix_pc = "done" => ix_batch = <<>>

\* C30 (amended): the same, and at the end nothing is left uncommitted: the
\* batch list is empty or still holds the remainder that the final flush
\* committed as the last batch.
C30_NothingPendingAtEnd ==
    /\ BatchingInvariant
    /\ ix_pc = "done" =>
          \/ ix_batch = <<>>
          \/ ix_commits # <<>> /\ ix_batch = ix_commits[Len(ix_commits)]

\* a run over two chunks with a full batch committed in the loop, a failed
\* file and a remainder committed by the final flush
C30_Witness ==
    /\ ix_pc = "done"
    /\ ix_total > MAX_WORKERS * TasksPerWorker
    /\ Len(ix_commits) >= 2
    /\ Len(ix_commits[1]) = BATCH_SIZE
    /\ Failed # {}
    /\ ix_batch # <<>>

=============================================================================
